---- MODULE Spec2Model ----
(***************************************************************************)
(* KuloSplit bill manager: the App component's state (src/App.tsx), its    *)
(* handlers, the rendering conditions that decide which handler a user can *)
(* trigger, the receipt analyzer's replies (src/unnamed/part_002) and the  *)
(* history store on localStorage (src/unnamed/part_001).                   *)
(*                                                                         *)
(* Numbers are IEEE-754 doubles, as JavaScript's: every sum, product and   *)
(* quotient is rounded to the nearest double (ties to even), with signed   *)
(* zeros, subnormals, the infinities and NaN.                              *)
(* Identifiers (crypto.randomUUID) are naturals in the order of their     *)
(* generation: nextId is the next one, so no identifier is ever reused.    *)
(* createdAt and description (wall-clock values) are left out of a bill,   *)
(* and so is successMessage, which no handler reads.                       *)
(***************************************************************************)
EXTENDS Integers, Sequences, FiniteSets, TLC

\* ------------------------------------------------------------- bounds
MaxItems == 2
MaxParticipants == 2
\* identifiers generated in all (three of them before the first state)
MaxIds == 7

\* ------------------------------------------------------------ numbers
Abs(x) == IF x < 0 THEN -x ELSE x
Min(x, y) == IF x < y THEN x ELSE y

\* natural numbers of any size: the limbs of 15 bits, lowest first, the highest not zero
Base == 32768
Pow2(k) == <<1, 2, 4, 8, 16, 32, 64, 128, 256, 512, 1024, 2048, 4096, 8192, 16384, 32768>>[k + 1]

RECURSIVE BigOf(_)
BigOf(n) == IF n = 0 THEN <<>> ELSE <<n % Base>> \o BigOf(n \div Base)

RECURSIVE BigStrip(_)
BigStrip(x) ==
    IF x = <<>> THEN x
    ELSE IF x[Len(x)] = 0 THEN BigStrip(SubSeq(x, 1, Len(x) - 1)) ELSE x

Limb(x, i) == IF i <= Len(x) THEN x[i] ELSE 0

RECURSIVE BigAddFrom(_, _, _, _)
BigAddFrom(a, b, i, carry) ==
    IF i > Len(a) /\ i > Len(b) THEN (IF carry = 0 THEN <<>> ELSE <<carry>>)
    ELSE LET t == Limb(a, i) + Limb(b, i) + carry
         IN <<t % Base>> \o BigAddFrom(a, b, i + 1, t \div Base)

BigAdd(a, b) == BigAddFrom(a, b, 1, 0)

\* a - b for a >= b
RECURSIVE BigSubFrom(_, _, _, _)
BigSubFrom(a, b, i, borrow) ==
    IF i > Len(a) THEN <<>>
    ELSE LET t == a[i] - Limb(b, i) - borrow
         IN <<IF t < 0 THEN t + Base ELSE t>>
                \o BigSubFrom(a, b, i + 1, IF t < 0 THEN 1 ELSE 0)

BigSub(a, b) == BigStrip(BigSubFrom(a, b, 1, 0))

RECURSIVE BigCmpAt(_, _, _)
BigCmpAt(a, b, i) ==
    IF i = 0 THEN 0
    ELSE IF a[i] > b[i] THEN 1
    ELSE IF a[i] < b[i] THEN -1
    ELSE BigCmpAt(a, b, i - 1)

\* -1, 0, 1 as a < b, a = b, a > b
BigCmp(a, b) ==
    IF Len(a) > Len(b) THEN 1
    ELSE IF Len(a) < Len(b) THEN -1
    ELSE BigCmpAt(a, b, Len(a))

\* a * k for one limb k
RECURSIVE BigMulLimbFrom(_, _, _, _)
BigMulLimbFrom(a, k, i, carry) ==
    IF i > Len(a) THEN (IF carry = 0 THEN <<>> ELSE <<carry>>)
    ELSE LET t == a[i] * k + carry
         IN <<t % Base>> \o BigMulLimbFrom(a, k, i + 1, t \div Base)

BigMulLimb(a, k) == IF k = 0 THEN <<>> ELSE BigMulLimbFrom(a, k, 1, 0)

RECURSIVE BigMulFrom(_, _, _)
BigMulFrom(a, b, i) ==
    IF i > Len(b) THEN <<>>
    ELSE BigAdd(BigMulLimb(a, b[i]), <<0>> \o BigMulFrom(a, b, i + 1))


\* a * 2^bits and the integer part of a / 2^bits
BigShl(a, bits) ==
    IF a = <<>> THEN <<>>
    ELSE [i \in 1..(bits \div 15) |-> 0] \o BigMulLimb(a, Pow2(bits % 15))

BigShr(a, bits) ==
    LET q == bits \div 15
        r == bits % 15
        n == Len(a) - q
    IN IF n <= 0 THEN <<>>
       ELSE BigStrip([i \in 1..n |->
                (a[q + i] \div Pow2(r)) + (Limb(a, q + i + 1) % Pow2(r)) * Pow2(15 - r)])

RECURSIVE BitLenInt(_)
BitLenInt(x) == IF x = 0 THEN 0 ELSE 1 + BitLenInt(x \div 2)

BigBitLen(a) == IF a = <<>> THEN 0 ELSE 15 * (Len(a) - 1) + BitLenInt(a[Len(a)])

\* bit i of a (bit 0 the lowest)
BigBit(a, i) == (Limb(a, i \div 15 + 1) \div Pow2(i % 15)) % 2

RECURSIVE TzInt(_)
TzInt(x) == IF x % 2 = 1 THEN 0 ELSE 1 + TzInt(x \div 2)

\* the number of trailing zero bits of a > 0
BigTz(a) ==
    LET j == CHOOSE j \in 1..Len(a) : a[j] # 0 /\ \A i \in 1..(j - 1) : a[i] = 0
    IN 15 * (j - 1) + TzInt(a[j])

\* quotient and remainder of a by one limb d > 0, from limb i down
RECURSIVE BigDivLimbAt(_, _, _, _)
BigDivLimbAt(a, d, i, rem) ==
    IF i = 0 THEN [q |-> <<>>, r |-> rem]
    ELSE LET t == rem * Base + a[i]
             lower == BigDivLimbAt(a, d, i - 1, t % d)
         IN [q |-> Append(lower.q, t \div d), r |-> lower.r]

\* One step of the long division by d, a divisor of two limbs or more whose highest
\* limb has its top bit set: the limb x is brought down to the remainder so far, the
\* quotient limb is estimated from the two highest limbs and is at most two too large.
BigDivStep(x, d, higher) ==
    IF higher.r = <<>> /\ x = 0 THEN [q |-> <<0>> \o higher.q, r |-> <<>>]
    ELSE LET r == <<x>> \o higher.r
             n == Len(d)
             q0 == Min(Base - 1, (Limb(r, n + 1) * Base + Limb(r, n)) \div d[n])
             q1 == IF BigCmp(BigMulLimb(d, q0), r) > 0 THEN q0 - 1 ELSE q0
             q2 == IF BigCmp(BigMulLimb(d, q1), r) > 0 THEN q1 - 1 ELSE q1
         IN [q |-> <<q2>> \o higher.q, r |-> BigSub(r, BigMulLimb(d, q2))]

\* quotient and remainder of a by d, from limb i of a up; the highest limbs of a, one
\* fewer than d has, are the first remainder
RECURSIVE BigDivAt(_, _, _)
BigDivAt(a, d, i) ==
    IF i > Len(a) - (Len(d) - 1) THEN [q |-> <<>>, r |-> SubSeq(a, i, Len(a))]
    ELSE BigDivStep(a[i], d, BigDivAt(a, d, i + 1))

\* [q, r] with a = q * d + r * 2^-t and r < d * 2^t for some t, for d > 0
BigDivMod(a, d) ==
    IF Len(d) = 1
    THEN LET qr == BigDivLimbAt(a, d[1], Len(a), 0)
         IN [q |-> BigStrip(qr.q), r |-> BigOf(qr.r)]
    ELSE LET t == 15 - BitLenInt(d[Len(d)])
         IN [BigDivAt(BigShl(a, t), BigShl(d, t), 1) EXCEPT !.q = BigStrip(@)]

\* A double: s * m * 2^e with the sign s (1 or -1), m an odd natural number below 2^53
\* (or zero, written << >>, with e = 0) and e from -1074 on; e = 1024 marks the values
\* that are not finite (s = 0: NaN) and s = 0 with m zero and e = 0 is the null that
\* JSON.parse reads where JSON.stringify wrote a number that is not finite.
Zero == [s |-> 1, m |-> <<>>, e |-> 0]
NegZero == [s |-> -1, m |-> <<>>, e |-> 0]
NaN == [s |-> 0, m |-> <<>>, e |-> 1024]
\* what JSON.parse makes of a number beyond the double range (1e999)
Infinity == [s |-> 1, m |-> <<>>, e |-> 1024]
JsonNullNumber == [s |-> 0, m |-> <<>>, e |-> 0]

IsFinite(a) == a.e < 1024
IsNaN(a) == a.e = 1024 /\ a.s = 0
IsZero(a) == IsFinite(a) /\ a.m = <<>>
\* the sign as arithmetic takes it (null counts as +0)
SignOf(a) == IF a.s = 0 THEN 1 ELSE a.s

\* s * M * 2^e, exactly, for any natural number M: M without its trailing zero bits
Dyadic(s, M, e) ==
    IF M = <<>> THEN [s |-> s, m |-> <<>>, e |-> 0]
    ELSE IF M[1] % 2 = 1 THEN [s |-> s, m |-> M, e |-> e]
    ELSE LET tz == BigTz(M) IN [s |-> s, m |-> BigShr(M, tz), e |-> e + tz]

\* the double of s * M * 2^e when that value is one (Infinity from 2^1024 on)
Finite(s, M, e) ==
    IF BigBitLen(M) + e > 1024 THEN [s |-> s, m |-> <<>>, e |-> 1024]
    ELSE Dyadic(s, M, e)

\* The double nearest to s * (M + f) * 2^e, where 0 < f < 1 if sticky and f = 0 if not:
\* 53 bits are kept, fewer below 2^-1022, and a tie goes to the even neighbour.
Round(s, M, e, sticky) ==
    LET drop == IF BigBitLen(M) - 53 > -1074 - e THEN BigBitLen(M) - 53 ELSE -1074 - e
    IN IF drop <= 0 THEN Finite(s, M, e)
       ELSE LET q == BigShr(M, drop)
                \* the bits below the highest bit dropped are all zero
                lowZero == /\ \A j \in 1..Min((drop - 1) \div 15, Len(M)) : M[j] = 0
                           /\ Limb(M, (drop - 1) \div 15 + 1) % Pow2((drop - 1) % 15) = 0
                up == /\ BigBit(M, drop - 1) = 1
                      /\ (sticky \/ ~lowZero \/ BigBit(M, drop) = 1)
            IN Finite(s, IF up THEN BigAdd(q, <<1>>) ELSE q, e + drop)

\* s * v * 2^e for an integer v in 1 .. 2^31 - 1 (exact: fewer than 53 bits)
RECURSIVE SmallDyadic(_, _, _)
SmallDyadic(s, v, e) ==
    IF v % 2 = 0 THEN SmallDyadic(s, v \div 2, e + 1) ELSE [s |-> s, m |-> BigOf(v), e |-> e]

\* a value of one limb, which is neither zero nor non-finite; sums, products and
\* quotients by a power of two of such values are exact and are computed on integers
OneLimb(a) == Len(a.m) = 1 /\ a.e > -400 /\ a.e < 400

\* the position above the highest bit of a finite value that is not zero
TopBit(a) == BigBitLen(a.m) + a.e

\* sa * A * 2^e + sb * B * 2^e for natural numbers A and B that compare as c says
ExactAddAligned(sa, A, sb, B, e, c) ==
    IF sa = sb THEN Dyadic(sa, BigAdd(A, B), e)
    ELSE IF c = 0 THEN Zero
    ELSE IF c > 0 THEN Dyadic(sa, BigSub(A, B), e)
    ELSE Dyadic(sb, BigSub(B, A), e)

\* a + b, exactly, for two finite values that are not zero, e the lower exponent
ExactAddAt(a, A, b, B, e) == ExactAddAligned(a.s, A, b.s, B, e, BigCmp(A, B))

\* the exact sum of two finite values (not rounded: m may have more than 53 bits)
ExactAdd(a, b) ==
    IF a.m = <<>> /\ b.m = <<>>
    THEN (IF SignOf(a) = -1 /\ SignOf(b) = -1 THEN NegZero ELSE Zero)
    ELSE IF a.m = <<>> THEN b
    ELSE IF b.m = <<>> THEN a
    ELSE ExactAddAt(a, BigShl(a.m, a.e - Min(a.e, b.e)),
                    b, BigShl(b.m, b.e - Min(a.e, b.e)), Min(a.e, b.e))

\* the exact product of two finite values
ExactMul(a, b) ==
    Dyadic(SignOf(a) * SignOf(b), BigStrip(BigMulFrom(a.m, b.m, 1)), a.e + b.e)

\* the double nearest to a finite value
RoundNum(x) == Round(x.s, x.m, x.e, FALSE)

\* a + b
Add(a, b) ==
    IF IsNaN(a) \/ IsNaN(b) THEN NaN
    ELSE IF ~IsFinite(a) /\ ~IsFinite(b) THEN (IF a.s = b.s THEN a ELSE NaN)
    ELSE IF ~IsFinite(a) THEN a
    ELSE IF ~IsFinite(b) THEN b
    ELSE IF IsZero(a) \/ IsZero(b) THEN ExactAdd(a, b)
    ELSE IF OneLimb(a) /\ OneLimb(b) /\ Abs(a.e - b.e) <= 15
    THEN LET e == Min(a.e, b.e)
             v == a.s * a.m[1] * Pow2(a.e - e) + b.s * b.m[1] * Pow2(b.e - e)
         IN IF v = 0 THEN Zero ELSE SmallDyadic(IF v < 0 THEN -1 ELSE 1, Abs(v), e)
    ELSE IF Abs(TopBit(a) - TopBit(b)) > 64
    THEN (IF TopBit(a) > TopBit(b) THEN a ELSE b)
    ELSE RoundNum(ExactAdd(a, b))

\* a * b
Mul(a, b) ==
    IF IsNaN(a) \/ IsNaN(b) THEN NaN
    ELSE IF ~IsFinite(a) \/ ~IsFinite(b)
    THEN (IF IsZero(a) \/ IsZero(b) THEN NaN
          ELSE [s |-> SignOf(a) * SignOf(b), m |-> <<>>, e |-> 1024])
    ELSE IF IsZero(a) \/ IsZero(b) THEN [s |-> SignOf(a) * SignOf(b), m |-> <<>>, e |-> 0]
    ELSE IF OneLimb(a) /\ OneLimb(b)
    THEN [s |-> a.s * b.s, m |-> BigOf(a.m[1] * b.m[1]), e |-> a.e + b.e]
    ELSE IF a.m = <<1>> /\ OneLimb(a) /\ b.m # <<>> /\ b.e > -400 /\ b.e < 400
    THEN [s |-> a.s * b.s, m |-> b.m, e |-> a.e + b.e]
    ELSE IF b.m = <<1>> /\ OneLimb(b) /\ a.m # <<>> /\ a.e > -400 /\ a.e < 400
    THEN [s |-> a.s * b.s, m |-> a.m, e |-> a.e + b.e]
    ELSE RoundNum(ExactMul(a, b))

\* the double nearest to s * (q + r / d) * 2^e for a quotient q and a remainder r
RoundQuotient(s, qr, e) == Round(s, qr.q, e, qr.r # <<>>)

\* a / b
Div(a, b) ==
    LET s == SignOf(a) * SignOf(b)
    IN IF IsNaN(a) \/ IsNaN(b) THEN NaN
       ELSE IF ~IsFinite(a) /\ ~IsFinite(b) THEN NaN
       ELSE IF ~IsFinite(a) THEN [s |-> s, m |-> <<>>, e |-> 1024]
       ELSE IF ~IsFinite(b) THEN [s |-> s, m |-> <<>>, e |-> 0]
       ELSE IF IsZero(b)
       THEN (IF IsZero(a) THEN NaN ELSE [s |-> s, m |-> <<>>, e |-> 1024])
       ELSE IF IsZero(a) THEN [s |-> s, m |-> <<>>, e |-> 0]
       ELSE IF b.m = <<1>> /\ OneLimb(b) /\ a.e > -400 /\ a.e < 400
       THEN [s |-> s, m |-> a.m, e |-> a.e - b.e]
       ELSE IF b.m = <<1>> THEN Round(s, a.m, a.e - b.e, FALSE)
       ELSE LET k == 56 + BigBitLen(b.m) - BigBitLen(a.m)
            IN RoundQuotient(s, BigDivMod(BigShl(a.m, k), b.m), a.e - b.e - k)

\* -1, 0, 1 as a < b, a = b, a > b, for two values that are not NaN
Cmp(a, b) ==
    IF a = b THEN 0
    ELSE LET sa == IF IsZero(a) THEN 0 ELSE SignOf(a)
             sb == IF IsZero(b) THEN 0 ELSE SignOf(b)
             la == IF IsFinite(a) THEN BigBitLen(a.m) + a.e ELSE 2000
             lb == IF IsFinite(b) THEN BigBitLen(b.m) + b.e ELSE 2000
             e == Min(a.e, b.e)
         IN IF sa # sb THEN (IF sa > sb THEN 1 ELSE -1)
            ELSE IF sa = 0 THEN 0
            ELSE IF la # lb THEN (IF la > lb THEN sa ELSE -sa)
            ELSE IF ~IsFinite(a) THEN 0
            ELSE sa * BigCmp(BigShl(a.m, a.e - e), BigShl(b.m, b.e - e))

\* a > b (false when either side is NaN)
Gt(a, b) == ~IsNaN(a) /\ ~IsNaN(b) /\ Cmp(a, b) > 0

\* a === b on numbers (NaN equals nothing, 0 equals -0, null is not a number)
StrictEq(a, b) ==
    /\ ~IsNaN(a) /\ ~IsNaN(b)
    /\ a # JsonNullNumber /\ b # JsonNullNumber
    /\ Cmp(a, b) = 0

\* the larger of two values that compare as c says (of 0 and -0: 0)
LargerOf(a, b, c) ==
    IF c = 0 THEN (IF SignOf(a) = 1 THEN a ELSE b) ELSE IF c < 0 THEN b ELSE a

\* Math.max(a, b)
MathMax(a, b) == IF IsNaN(a) \/ IsNaN(b) THEN NaN ELSE LargerOf(a, b, Cmp(a, b))

\* the double of an integer
Int2Num(i) == IF i = 0 THEN Zero ELSE SmallDyadic(IF i < 0 THEN -1 ELSE 1, Abs(i), 0)

RECURSIVE SumSeq(_)
SumSeq(s) == IF s = <<>> THEN Zero ELSE Add(SumSeq(SubSeq(s, 1, Len(s) - 1)), s[Len(s)])

\* --------------------------------------------------------------- data
\* null / undefined, for a bill, a participant id, an image
NoBill == [null |-> TRUE]
NullId == 0
NoImage == [undefined |-> TRUE]

\* itemAssignments[itemId]: undefined for a missing key reads like null
assignmentOf(bill, itemId) ==
    IF itemId \in DOMAIN bill.itemAssignments THEN bill.itemAssignments[itemId] ELSE NullId

\* { ...assignments, [itemId]: participantId }
withAssignment(assignments, itemId, participantId) ==
    [k \in DOMAIN assignments \cup {itemId} |->
        IF k = itemId THEN participantId ELSE assignments[k]]

\* the object without the keys in `keys` (delete obj[k]; filter + reduce)
withoutKeys(assignments, keys) ==
    [k \in DOMAIN assignments \ keys |-> assignments[k]]

SeqToSet(s) == {s[i] : i \in 1..Len(s)}
ItemIds(bill) == {bill.extractedItems[i].id : i \in 1..Len(bill.extractedItems)}
ParticipantIds(bill) == {bill.participants[i].id : i \in 1..Len(bill.participants)}

\* crypto.randomUUID(): the k-th identifier handed out from now on (k = 0, 1, ...);
\* identifiers are the naturals from 1, in the order they are generated
generateId(next, k) == next + k

\* ---------------------------------------------------- calculateShares
\* participantShares.find(s => s.participantId === id): first index, 0 if none
findShare(shares, id) ==
    IF \E i \in 1..Len(shares) : shares[i].participantId = id
    THEN CHOOSE i \in 1..Len(shares) :
            /\ shares[i].participantId = id
            /\ \A j \in 1..(i - 1) : shares[j].participantId # id
    ELSE 0

\* the forEach over extractedItems, after its first n items:
\* [shares, totalBillSubtotal]
\* a faulty variant: share.subtotal = itemLineTotal instead of +=
RECURSIVE forEachItemOverwriting(_, _, _)
forEachItemOverwriting(bill, initial, n) ==
    IF n = 0 THEN [shares |-> initial, totalBillSubtotal |-> Zero]
    ELSE LET before == forEachItemOverwriting(bill, initial, n - 1)
             item == bill.extractedItems[n]
             assignedParticipantId == assignmentOf(bill, item.id)
             k == findShare(before.shares, assignedParticipantId)
         IN [shares |->
                IF assignedParticipantId # NullId /\ k # 0
                THEN [before.shares EXCEPT
                        ![k].items = Append(@, item),
                        ![k].subtotal = item.price]
                ELSE before.shares,
             totalBillSubtotal |-> Add(before.totalBillSubtotal, item.price)]

RECURSIVE forEachItem(_, _, _)
forEachItem(bill, initial, n) ==
    IF n = 0 THEN [shares |-> initial, totalBillSubtotal |-> Zero]
    ELSE LET before == forEachItem(bill, initial, n - 1)
             item == bill.extractedItems[n]
             itemLineTotal == item.price
             assignedParticipantId == assignmentOf(bill, item.id)
             k == findShare(before.shares, assignedParticipantId)
         IN [shares |->
                IF assignedParticipantId # NullId /\ k # 0
                THEN [before.shares EXCEPT
                        ![k].items = Append(@, item),
                        ![k].subtotal = Add(@, itemLineTotal)]
                ELSE before.shares,
             totalBillSubtotal |-> Add(before.totalBillSubtotal, itemLineTotal)]

\* faulty variants of the fee branches:
\* the service fee share computed from the tax amount,
distributeFeesCopied(bill, shares, totalBillSubtotal) ==
    IF StrictEq(totalBillSubtotal, Zero)
       /\ (Gt(bill.taxAmount, Zero) \/ Gt(bill.serviceFeeAmount, Zero))
    THEN [i \in 1..Len(shares) |->
            [shares[i] EXCEPT
                !.taxShare = Div(bill.taxAmount, Int2Num(Len(bill.participants))),
                !.serviceFeeShare = Div(bill.taxAmount, Int2Num(Len(bill.participants)))]]
    ELSE IF Gt(totalBillSubtotal, Zero)
    THEN [i \in 1..Len(shares) |->
            LET proportion == Div(shares[i].subtotal, totalBillSubtotal)
            IN [shares[i] EXCEPT
                    !.taxShare = Mul(bill.taxAmount, proportion),
                    !.serviceFeeShare = Mul(bill.taxAmount, proportion)]]
    ELSE shares

\* no equal split when the items sum to zero,
distributeFeesProportionalOnly(bill, shares, totalBillSubtotal) ==
    IF Gt(totalBillSubtotal, Zero)
    THEN [i \in 1..Len(shares) |->
            LET proportion == Div(shares[i].subtotal, totalBillSubtotal)
            IN [shares[i] EXCEPT
                    !.taxShare = Mul(bill.taxAmount, proportion),
                    !.serviceFeeShare = Mul(bill.serviceFeeAmount, proportion)]]
    ELSE shares

\* the proportion taken without the test totalBillSubtotal > 0
distributeFeesUnguarded(bill, shares, totalBillSubtotal) ==
    IF StrictEq(totalBillSubtotal, Zero)
       /\ (Gt(bill.taxAmount, Zero) \/ Gt(bill.serviceFeeAmount, Zero))
    THEN [i \in 1..Len(shares) |->
            [shares[i] EXCEPT
                !.taxShare = Div(bill.taxAmount, Int2Num(Len(bill.participants))),
                !.serviceFeeShare = Div(bill.serviceFeeAmount, Int2Num(Len(bill.participants)))]]
    ELSE [i \in 1..Len(shares) |->
            LET proportion == Div(shares[i].subtotal, totalBillSubtotal)
            IN [shares[i] EXCEPT
                    !.taxShare = Mul(bill.taxAmount, proportion),
                    !.serviceFeeShare = Mul(bill.serviceFeeAmount, proportion)]]

\* a faulty variant: the equal split forgets the service fee
distributeFeesEqualTaxOnly(bill, shares, totalBillSubtotal) ==
    IF StrictEq(totalBillSubtotal, Zero)
       /\ (Gt(bill.taxAmount, Zero) \/ Gt(bill.serviceFeeAmount, Zero))
    THEN [i \in 1..Len(shares) |->
            [shares[i] EXCEPT
                !.taxShare = Div(bill.taxAmount, Int2Num(Len(bill.participants)))]]
    ELSE IF Gt(totalBillSubtotal, Zero)
    THEN [i \in 1..Len(shares) |->
            LET proportion == Div(shares[i].subtotal, totalBillSubtotal)
            IN [shares[i] EXCEPT
                    !.taxShare = Mul(bill.taxAmount, proportion),
                    !.serviceFeeShare = Mul(bill.serviceFeeAmount, proportion)]]
    ELSE shares

\* the two fee branches
\* the share of a participant who owns the proportion of the bill
proportionalShare(bill, share, proportion) ==
    [share EXCEPT
        !.taxShare = Mul(bill.taxAmount, proportion),
        !.serviceFeeShare = Mul(bill.serviceFeeAmount, proportion)]

distributeFees(bill, shares, totalBillSubtotal) ==
    IF StrictEq(totalBillSubtotal, Zero)
       /\ (Gt(bill.taxAmount, Zero) \/ Gt(bill.serviceFeeAmount, Zero))
    THEN LET numParticipants == Int2Num(Len(bill.participants))
         IN IF Gt(numParticipants, Zero)
            THEN [i \in 1..Len(shares) |->
                    [shares[i] EXCEPT
                        !.taxShare = Div(bill.taxAmount, numParticipants),
                        !.serviceFeeShare = Div(bill.serviceFeeAmount, numParticipants)]]
            ELSE shares
    ELSE IF Gt(totalBillSubtotal, Zero)
    THEN [i \in 1..Len(shares) |->
            proportionalShare(bill, shares[i], Div(shares[i].subtotal, totalBillSubtotal))]
    ELSE shares

\* a faulty variant: totalOwed without the service fee share
calculateSharesOwingNoFee(bill) ==
    IF bill = NoBill \/ Len(bill.participants) = 0 THEN <<>>
    ELSE LET participantShares ==
                [i \in 1..Len(bill.participants) |->
                    [participantId |-> bill.participants[i].id,
                     participantName |-> bill.participants[i].name,
                     items |-> <<>>,
                     subtotal |-> Zero,
                     taxShare |-> Zero,
                     serviceFeeShare |-> Zero,
                     totalOwed |-> Zero]]
             done == forEachItem(bill, participantShares, Len(bill.extractedItems))
             withFees == distributeFees(bill, done.shares, done.totalBillSubtotal)
         IN [i \in 1..Len(withFees) |->
                [withFees[i] EXCEPT !.totalOwed = Add(withFees[i].subtotal, withFees[i].taxShare)]]

\* participants.map: one share per participant, nothing owned yet
participantShares(bill) ==
    [i \in 1..Len(bill.participants) |->
        [participantId |-> bill.participants[i].id,
         participantName |-> bill.participants[i].name,
         items |-> <<>>,
         subtotal |-> Zero,
         taxShare |-> Zero,
         serviceFeeShare |-> Zero,
         totalOwed |-> Zero]]

\* the fee branches on what the forEach left: done = [shares, totalBillSubtotal]
feesDistributed(bill, done) == distributeFees(bill, done.shares, done.totalBillSubtotal)

\* share.totalOwed = share.subtotal + share.taxShare + share.serviceFeeShare
withTotalOwed(shares) ==
    [i \in 1..Len(shares) |->
        [shares[i] EXCEPT
            !.totalOwed = Add(Add(shares[i].subtotal, shares[i].taxShare),
                              shares[i].serviceFeeShare)]]

calculateShares(bill) ==
    IF bill = NoBill \/ Len(bill.participants) = 0 THEN <<>>
    ELSE withTotalOwed(
            feesDistributed(bill, forEachItem(bill, participantShares(bill),
                                              Len(bill.extractedItems))))

\* ------------------------------------ calculateShares on the objects it is given
\* calculateShares as the statements it runs on the objects of the component: a store
\* is [heap, currentBill, appStep, historicalBills], heap[a] the object the reference a
\* names (a participant, an item, the bill with its two arrays holding references, a
\* share with its array of item references), currentBill the reference the closure
\* holds (NullId for null) and appStep and historicalBills the two other pieces of
\* state in its scope. The result is the store the evaluation leaves and the array it
\* returns, as references: share.items.push(item) stores the reference of the bill's
\* item, and every assignment of the function is a write to the object it names.

\* a faulty variant: the items are gone through last to first, with
\* currentBill.extractedItems.reverse().forEach(...), which turns the bill's own array
calculateSharesReversingItems(store) ==
    IF store.currentBill = NullId THEN [store |-> store, participantShares |-> <<>>]
    ELSE IF Len(store.heap[store.currentBill].participants) = 0
    THEN [store |-> store, participantShares |-> <<>>]
    ELSE LET bill == store.heap[store.currentBill]
             n == Len(bill.participants)
             base == Len(store.heap)
             \* participants.map(p => ({ ... })): n new objects after the ones there
             \* are, each with a new empty array of items
             \* (shareRefs is the array participantShares)
             shareRefs == [i \in 1..n |-> base + i]
             mapped ==
                store.heap \o
                    [i \in 1..n |->
                        [participantId |-> store.heap[bill.participants[i]].id,
                         participantName |-> store.heap[bill.participants[i]].name,
                         items |-> <<>>,
                         subtotal |-> Zero,
                         taxShare |-> Zero,
                         serviceFeeShare |-> Zero,
                         totalOwed |-> Zero]]
             \* extractedItems.reverse(): the bill's array, turned round where it is
             reversed ==
                [i \in 1..Len(bill.extractedItems) |->
                    bill.extractedItems[Len(bill.extractedItems) + 1 - i]]
             \* the forEach over it, after its first k items
             forEach[k \in 0..Len(bill.extractedItems)] ==
                IF k = 0
                THEN [heap |-> [mapped EXCEPT ![store.currentBill].extractedItems = reversed],
                      totalBillSubtotal |-> Zero]
                ELSE LET before == forEach[k - 1]
                         item == before.heap[reversed[k]]
                         itemLineTotal == item.price
                         assignedParticipantId ==
                            assignmentOf(before.heap[store.currentBill], item.id)
                         found == {i \in 1..n :
                                     before.heap[shareRefs[i]].participantId
                                        = assignedParticipantId}
                         share == shareRefs[CHOOSE i \in found :
                                                        \A j \in found : i <= j]
                     IN [heap |->
                            IF assignedParticipantId # NullId /\ found # {}
                            THEN [before.heap EXCEPT
                                    ![share].items = Append(@, reversed[k]),
                                    ![share].subtotal = Add(@, itemLineTotal)]
                            ELSE before.heap,
                         totalBillSubtotal |-> Add(before.totalBillSubtotal, itemLineTotal)]
             done == forEach[Len(bill.extractedItems)]
             totalBillSubtotal == done.totalBillSubtotal
             currentBillNow == done.heap[store.currentBill]
             \* participantShares.forEach(share => ...): the objects the array names
             isShare(a) == \E i \in 1..n : shareRefs[i] = a
             withFees ==
                IF StrictEq(totalBillSubtotal, Zero)
                   /\ (Gt(currentBillNow.taxAmount, Zero)
                       \/ Gt(currentBillNow.serviceFeeAmount, Zero))
                THEN LET numParticipants == Int2Num(Len(currentBillNow.participants))
                     IN IF Gt(numParticipants, Zero)
                        THEN [a \in 1..Len(done.heap) |->
                                IF isShare(a)
                                THEN [done.heap[a] EXCEPT
                                        !.taxShare =
                                            Div(currentBillNow.taxAmount, numParticipants),
                                        !.serviceFeeShare =
                                            Div(currentBillNow.serviceFeeAmount,
                                                numParticipants)]
                                ELSE done.heap[a]]
                        ELSE done.heap
                ELSE IF Gt(totalBillSubtotal, Zero)
                THEN [a \in 1..Len(done.heap) |->
                        IF isShare(a)
                        THEN proportionalShare(currentBillNow, done.heap[a],
                                               Div(done.heap[a].subtotal, totalBillSubtotal))
                        ELSE done.heap[a]]
                ELSE done.heap
             withTotals ==
                [a \in 1..Len(withFees) |->
                    IF isShare(a)
                    THEN [withFees[a] EXCEPT
                            !.totalOwed = Add(Add(withFees[a].subtotal, withFees[a].taxShare),
                                              withFees[a].serviceFeeShare)]
                    ELSE withFees[a]]
         IN [store |-> [store EXCEPT !.heap = withTotals],
             participantShares |-> shareRefs]

calculateSharesOnObjects(store) ==
    IF store.currentBill = NullId THEN [store |-> store, participantShares |-> <<>>]
    ELSE IF Len(store.heap[store.currentBill].participants) = 0
    THEN [store |-> store, participantShares |-> <<>>]
    ELSE LET bill == store.heap[store.currentBill]
             n == Len(bill.participants)
             base == Len(store.heap)
             \* participants.map(p => ({ ... })): n new objects after the ones there
             \* are, each with a new empty array of items
             \* (shareRefs is the array participantShares)
             shareRefs == [i \in 1..n |-> base + i]
             mapped ==
                store.heap \o
                    [i \in 1..n |->
                        [participantId |-> store.heap[bill.participants[i]].id,
                         participantName |-> store.heap[bill.participants[i]].name,
                         items |-> <<>>,
                         subtotal |-> Zero,
                         taxShare |-> Zero,
                         serviceFeeShare |-> Zero,
                         totalOwed |-> Zero]]
             \* the forEach over extractedItems, after its first k items
             forEach[k \in 0..Len(bill.extractedItems)] ==
                IF k = 0 THEN [heap |-> mapped, totalBillSubtotal |-> Zero]
                ELSE LET before == forEach[k - 1]
                         item == before.heap[bill.extractedItems[k]]
                         itemLineTotal == item.price
                         assignedParticipantId ==
                            assignmentOf(before.heap[store.currentBill], item.id)
                         found == {i \in 1..n :
                                     before.heap[shareRefs[i]].participantId
                                        = assignedParticipantId}
                         share == shareRefs[CHOOSE i \in found :
                                                        \A j \in found : i <= j]
                     IN [heap |->
                            IF assignedParticipantId # NullId /\ found # {}
                            THEN [before.heap EXCEPT
                                    ![share].items = Append(@, bill.extractedItems[k]),
                                    ![share].subtotal = Add(@, itemLineTotal)]
                            ELSE before.heap,
                         totalBillSubtotal |-> Add(before.totalBillSubtotal, itemLineTotal)]
             done == forEach[Len(bill.extractedItems)]
             totalBillSubtotal == done.totalBillSubtotal
             currentBillNow == done.heap[store.currentBill]
             \* participantShares.forEach(share => ...): the objects the array names
             isShare(a) == \E i \in 1..n : shareRefs[i] = a
             withFees ==
                IF StrictEq(totalBillSubtotal, Zero)
                   /\ (Gt(currentBillNow.taxAmount, Zero)
                       \/ Gt(currentBillNow.serviceFeeAmount, Zero))
                THEN LET numParticipants == Int2Num(Len(currentBillNow.participants))
                     IN IF Gt(numParticipants, Zero)
                        THEN [a \in 1..Len(done.heap) |->
                                IF isShare(a)
                                THEN [done.heap[a] EXCEPT
                                        !.taxShare =
                                            Div(currentBillNow.taxAmount, numParticipants),
                                        !.serviceFeeShare =
                                            Div(currentBillNow.serviceFeeAmount,
                                                numParticipants)]
                                ELSE done.heap[a]]
                        ELSE done.heap
                ELSE IF Gt(totalBillSubtotal, Zero)
                THEN [a \in 1..Len(done.heap) |->
                        IF isShare(a)
                        THEN proportionalShare(currentBillNow, done.heap[a],
                                               Div(done.heap[a].subtotal, totalBillSubtotal))
                        ELSE done.heap[a]]
                ELSE done.heap
             withTotals ==
                [a \in 1..Len(withFees) |->
                    IF isShare(a)
                    THEN [withFees[a] EXCEPT
                            !.totalOwed = Add(Add(withFees[a].subtotal, withFees[a].taxShare),
                                              withFees[a].serviceFeeShare)]
                    ELSE withFees[a]]
         IN [store |-> [store EXCEPT !.heap = withTotals],
             participantShares |-> shareRefs]

\* -------------------------------------------------------------- state
VARIABLES
    currentBill,            \* BillSession | null
    appStep,                \* AppStep
    isLoading,
    errorMessage,
    historicalBills,        \* StoredBillSession[]
    participantNameInput,   \* sequence of characters
    viewingBillDetails,     \* StoredBillSession | null
    localStorage,           \* the list persisted under LOCAL_STORAGE_BILLS_KEY
    inflight,               \* uploads whose file read or analysis is pending
    nextId                  \* the identifiers crypto.randomUUID has handed out so far, plus one

vars == <<currentBill, appStep, isLoading, errorMessage, historicalBills,
          participantNameInput, viewingBillDetails, localStorage, inflight, nextId>>

\* the state outside the messages and the name input
billVars == <<currentBill, appStep, isLoading, historicalBills, viewingBillDetails,
              localStorage, inflight, nextId>>

\* ------------------------------------------------------------- inputs
\* what a user types into the price, tax and service fee fields
PriceInputs == {Int2Num(0), Int2Num(2)}
TaxInputs == {Int2Num(-1)}
FeeInputs == {Int2Num(-1)}
NameEdits == {"New Item"}
QuantityEdits == {Int2Num(1)}
\* what a user types into the participant name field
NameInputs == {<<"A">>, <<" ", "a">>, <<"b">>, <<" ">>}

\* String.prototype.toLowerCase / trim on sequences of characters
lowerChar(c) == IF c = "A" THEN "a" ELSE IF c = "B" THEN "b" ELSE c
toLowerCase(s) == [i \in 1..Len(s) |-> lowerChar(s[i])]
RECURSIVE trimStart(_)
trimStart(s) == IF s # <<>> /\ Head(s) = " " THEN trimStart(Tail(s)) ELSE s
RECURSIVE trimEnd(_)
trimEnd(s) == IF s # <<>> /\ s[Len(s)] = " " THEN trimEnd(SubSeq(s, 1, Len(s) - 1)) ELSE s
trim(s) == trimEnd(trimStart(s))

\* ----------------------------------------------------------- messages
\* successMessage is only rendered and dismissed, never read by a handler: it is
\* not part of the state here, and setSuccessMessage leaves the state alone
clearMessages == errorMessage' = ""
setErrorMessage(m) == errorMessage' = m

\* ------------------------------------------------- bill edit handlers
\* DEFAULT_SERVICE_FEE_PERCENTAGE of ./constants: "a fixed percentage"
DEFAULT_SERVICE_FEE_PERCENTAGE == Div(Int2Num(1), Int2Num(10))

\* the variables no edit handler assigns
otherFrame == UNCHANGED <<appStep, isLoading, historicalBills, viewingBillDetails,
                          localStorage, inflight>>
\* the same, for a handler that generates no identifier
editFrame == otherFrame /\ UNCHANGED nextId

\* a faulty variant: the comparison without toLowerCase
nameTakenExactly(bill, name) ==
    \E i \in 1..Len(bill.participants) : bill.participants[i].name = name

nameTaken(bill, name) ==
    \E i \in 1..Len(bill.participants) :
        toLowerCase(bill.participants[i].name) = toLowerCase(name)

handleAddParticipant ==
    /\ otherFrame
    /\ IF trim(participantNameInput) = <<>> \/ currentBill = NoBill
       THEN /\ clearMessages
            /\ UNCHANGED <<currentBill, participantNameInput, nextId>>
       ELSE IF nameTaken(currentBill, trim(participantNameInput))
       THEN /\ errorMessage' = "Participant with this name already exists."
            /\ UNCHANGED <<currentBill, participantNameInput, nextId>>
       ELSE LET newParticipant ==
                    [id |-> generateId(nextId, 0), name |-> trim(participantNameInput)]
            IN /\ clearMessages
               /\ nextId' = nextId + 1
               /\ currentBill' = [currentBill EXCEPT
                                    !.participants = Append(@, newParticipant)]
               /\ participantNameInput' = <<>>

\* a removal that forgets the assignments (what the filter on itemAssignments prevents)
removeParticipantOnly(bill, participantId) ==
    [bill EXCEPT !.participants = SelectSeq(@, LAMBDA q : q.id # participantId)]

removeParticipant(bill, participantId) ==
    [bill EXCEPT
        !.participants = SelectSeq(@, LAMBDA q : q.id # participantId),
        !.itemAssignments =
            withoutKeys(@, {k \in DOMAIN @ : @[k] = participantId})]

handleRemoveParticipant(participantId) ==
    /\ editFrame
    /\ UNCHANGED <<errorMessage, participantNameInput>>
    /\ IF currentBill = NoBill THEN UNCHANGED currentBill
       ELSE currentBill' = removeParticipant(currentBill, participantId)

handleUpdateItem(updatedItem) ==
    /\ editFrame
    /\ UNCHANGED <<errorMessage, participantNameInput>>
    /\ IF currentBill = NoBill THEN UNCHANGED currentBill
       ELSE currentBill' =
                [currentBill EXCEPT !.extractedItems =
                    [i \in 1..Len(@) |->
                        IF @[i].id = updatedItem.id THEN updatedItem ELSE @[i]]]

handleAddItem ==
    /\ otherFrame
    /\ UNCHANGED <<errorMessage, participantNameInput>>
    /\ IF currentBill = NoBill THEN UNCHANGED <<currentBill, nextId>>
       ELSE LET newItem ==
                    [id |-> generateId(nextId, 0),
                     name |-> "New Item", quantity |-> Int2Num(1), price |-> Zero]
            IN /\ currentBill' = [currentBill EXCEPT !.extractedItems = Append(@, newItem)]
               /\ nextId' = nextId + 1

\* a removal that forgets the key (what `delete newAssignments[itemId]` prevents)
removeItemOnly(bill, itemId) ==
    [bill EXCEPT !.extractedItems = SelectSeq(@, LAMBDA item : item.id # itemId)]

removeItem(bill, itemId) ==
    [bill EXCEPT
        !.extractedItems = SelectSeq(@, LAMBDA item : item.id # itemId),
        !.itemAssignments = withoutKeys(@, {itemId})]

handleRemoveItem(itemId) ==
    /\ editFrame
    /\ UNCHANGED <<errorMessage, participantNameInput>>
    /\ IF currentBill = NoBill THEN UNCHANGED currentBill
       ELSE currentBill' = removeItem(currentBill, itemId)

handleAssignItem(itemId, participantId) ==
    /\ editFrame
    /\ UNCHANGED <<errorMessage, participantNameInput>>
    /\ IF currentBill = NoBill THEN UNCHANGED currentBill
       ELSE currentBill' =
                [currentBill EXCEPT
                    !.itemAssignments = withAssignment(@, itemId, participantId)]

\* a faulty variant: without `if (!currentBill) return`, { ...null, taxAmount } is built
handleUpdateTaxUnchecked(amount) ==
    /\ editFrame
    /\ UNCHANGED <<errorMessage, participantNameInput>>
    /\ IF currentBill = NoBill THEN currentBill' = [taxAmount |-> MathMax(Zero, amount)]
       ELSE currentBill' = [currentBill EXCEPT !.taxAmount = MathMax(Zero, amount)]

handleUpdateTax(amount) ==
    /\ editFrame
    /\ UNCHANGED <<errorMessage, participantNameInput>>
    /\ IF currentBill = NoBill THEN UNCHANGED currentBill
       ELSE currentBill' = [currentBill EXCEPT !.taxAmount = MathMax(Zero, amount)]

\* the bill handleUpdateServiceFee(amount) sets
withServiceFee(bill, amount) == [bill EXCEPT !.serviceFeeAmount = MathMax(Zero, amount)]

handleUpdateServiceFee(amount) ==
    /\ editFrame
    /\ UNCHANGED <<errorMessage, participantNameInput>>
    /\ IF currentBill = NoBill THEN UNCHANGED currentBill
       ELSE currentBill' = withServiceFee(currentBill, amount)

\* extractedItems.reduce((sum, item) => sum + item.price, 0)
sumPrices(items) == SumSeq([i \in 1..Len(items) |-> items[i].price])

\* a faulty variant: the test subtotal !== 0 in place of subtotal > 0
handleSetDefaultServiceFeeNonZero ==
    /\ editFrame
    /\ UNCHANGED participantNameInput
    /\ IF currentBill = NoBill
       THEN UNCHANGED <<currentBill, errorMessage>>
       ELSE LET subtotal == sumPrices(currentBill.extractedItems)
            IN IF ~StrictEq(subtotal, Zero)
               THEN /\ currentBill' =
                          withServiceFee(currentBill,
                                         Mul(subtotal, DEFAULT_SERVICE_FEE_PERCENTAGE))
                    /\ UNCHANGED errorMessage
               ELSE /\ errorMessage' =
                          "Cannot calculate default service fee without items or non-zero prices."
                    /\ UNCHANGED currentBill

\* the handler's branch on the subtotal it has summed
setDefaultServiceFee(subtotal) ==
    IF Gt(subtotal, Zero)
    THEN /\ currentBill' =
               withServiceFee(currentBill, Mul(subtotal, DEFAULT_SERVICE_FEE_PERCENTAGE))
         /\ UNCHANGED errorMessage
    ELSE /\ errorMessage' =
               "Cannot calculate default service fee without items or non-zero prices."
         /\ UNCHANGED currentBill

handleSetDefaultServiceFee ==
    /\ editFrame
    /\ UNCHANGED participantNameInput
    /\ IF currentBill = NoBill
       THEN UNCHANGED <<currentBill, errorMessage>>
       ELSE setDefaultServiceFee(sumPrices(currentBill.extractedItems))

\* ------------------------------------------------------ history store
\* JSON.stringify writes a non-finite number as null and -0 as 0
jsonNumber(x) ==
    IF ~IsFinite(x) \/ x = JsonNullNumber THEN JsonNullNumber
    ELSE IF IsZero(x) THEN Zero ELSE x
jsonItems(items) ==
    [i \in 1..Len(items) |->
        [items[i] EXCEPT !.quantity = jsonNumber(@), !.price = jsonNumber(@)]]
jsonShares(shares) ==
    [i \in 1..Len(shares) |->
        [shares[i] EXCEPT !.items = jsonItems(@),
                          !.subtotal = jsonNumber(@),
                          !.taxShare = jsonNumber(@),
                          !.serviceFeeShare = jsonNumber(@),
                          !.totalOwed = jsonNumber(@)]]
\* JSON.parse(JSON.stringify(bills)): a number that is not finite comes back as null; a
\* key whose value is undefined is dropped, which reads as undefined again (NoImage)
jsonRoundTrip(bills) ==
    [i \in 1..Len(bills) |->
        [bills[i] EXCEPT !.extractedItems = jsonItems(@),
                         !.taxAmount = jsonNumber(@),
                         !.serviceFeeAmount = jsonNumber(@),
                         !.calculatedShares = jsonShares(@)]]

\* readOk: localStorage.getItem and JSON.parse do not throw
loadBillsFromStorage(readOk) == IF readOk THEN localStorage ELSE <<>>

\* a faulty variant: the exception of setItem is not caught
saveBillsToStorageThrowing(bills, writeOk) ==
    writeOk /\ localStorage' = jsonRoundTrip(bills)

\* writeOk: localStorage.setItem does not throw
saveBillsToStorage(bills, writeOk) ==
    localStorage' = IF writeOk THEN jsonRoundTrip(bills) ELSE localStorage

\* a faulty variant: the new bill is put after the stored ones
addBillToStorageAppending(bill, readOk) == loadBillsFromStorage(readOk) \o <<bill>>

\* the lists the three writers return
addBillToStorage(bill, readOk) == <<bill>> \o loadBillsFromStorage(readOk)
deleteBillFromStorage(billId, readOk) ==
    SelectSeq(loadBillsFromStorage(readOk), LAMBDA b : b.id # billId)
clearAllBillsFromStorage == <<>>

\* --------------------------------------------------- lifecycle handlers
\* a filter on the key's presence instead of its value: an item set back to "no one" passes
unassignedByKey(bill) ==
    SelectSeq(bill.extractedItems, LAMBDA item : item.id \notin DOMAIN bill.itemAssignments)

unassignedItems(bill) ==
    SelectSeq(bill.extractedItems, LAMBDA item : assignmentOf(bill, item.id) = NullId)

\* a message without the count
unassignedMessagePlain(k) == "Please assign all items."

unassignedMessage(k) ==
    "Please assign all items. " \o ToString(k) \o " item(s) are unassigned."

\* a faulty variant: the summary opens for a bill without participants
handleViewSummaryWithoutParticipants ==
    /\ UNCHANGED nextId
    /\ UNCHANGED <<currentBill, isLoading, historicalBills, viewingBillDetails,
                   localStorage, inflight, participantNameInput>>
    /\ IF currentBill = NoBill
       THEN errorMessage' = "No bill data available." /\ UNCHANGED appStep
       ELSE IF Len(currentBill.extractedItems) = 0
       THEN errorMessage' = "Please add items to the bill." /\ UNCHANGED appStep
       ELSE IF Len(unassignedItems(currentBill)) > 0 /\ Len(currentBill.participants) > 0
       THEN /\ errorMessage' = unassignedMessage(Len(unassignedItems(currentBill)))
            /\ UNCHANGED appStep
       ELSE errorMessage' = "" /\ appStep' = "VIEW_SUMMARY"

handleViewSummary ==
    /\ UNCHANGED nextId
    /\ UNCHANGED <<currentBill, isLoading, historicalBills, viewingBillDetails,
                   localStorage, inflight, participantNameInput>>
    /\ IF currentBill = NoBill
       THEN errorMessage' = "No bill data available." /\ UNCHANGED appStep
       ELSE IF Len(currentBill.participants) = 0
       THEN /\ errorMessage' = "Please add participants before viewing summary."
            /\ UNCHANGED appStep
       ELSE IF Len(currentBill.extractedItems) = 0
       THEN errorMessage' = "Please add items to the bill." /\ UNCHANGED appStep
       ELSE IF Len(unassignedItems(currentBill)) > 0 /\ Len(currentBill.participants) > 0
       THEN /\ errorMessage' = unassignedMessage(Len(unassignedItems(currentBill)))
            /\ UNCHANGED appStep
       ELSE errorMessage' = "" /\ appStep' = "VIEW_SUMMARY"

\* { ...currentBill, calculatedShares: finalShares }
billToSave(bill) ==
    [id |-> bill.id,
     receiptImage |-> bill.receiptImage,
     extractedItems |-> bill.extractedItems,
     participants |-> bill.participants,
     itemAssignments |-> bill.itemAssignments,
     taxAmount |-> bill.taxAmount,
     serviceFeeAmount |-> bill.serviceFeeAmount,
     calculatedShares |-> calculateShares(bill)]

handleSaveBill(readOk, writeOk) ==
    /\ UNCHANGED nextId
    /\ UNCHANGED <<isLoading, viewingBillDetails, inflight, participantNameInput>>
    /\ IF currentBill = NoBill
       THEN /\ clearMessages
            /\ UNCHANGED <<currentBill, appStep, historicalBills, localStorage>>
       ELSE /\ clearMessages
            /\ currentBill' = NoBill
            /\ appStep' = "UPLOAD_RECEIPT"
            \* updatedHistory = addBillToStorage(billToSave), which writes what it returns
            /\ historicalBills' = addBillToStorage(billToSave(currentBill), readOk)
            /\ saveBillsToStorage(historicalBills', writeOk)

\* a faulty variant: the viewed bill is kept
startNewBillKeepingView ==
    /\ UNCHANGED nextId
    /\ clearMessages
    /\ currentBill' = NoBill
    /\ appStep' = "UPLOAD_RECEIPT"
    /\ UNCHANGED <<isLoading, historicalBills, viewingBillDetails, localStorage, inflight,
                   participantNameInput>>

startNewBill ==
    /\ UNCHANGED nextId
    /\ clearMessages
    /\ currentBill' = NoBill
    /\ viewingBillDetails' = NoBill
    /\ appStep' = "UPLOAD_RECEIPT"
    /\ UNCHANGED <<isLoading, historicalBills, localStorage, inflight, participantNameInput>>

\* a faulty variant: the view drops the in-progress bill
viewBillDiscarding(billId) ==
    /\ UNCHANGED nextId
    /\ clearMessages
    /\ currentBill' = NoBill
    /\ UNCHANGED <<isLoading, historicalBills, localStorage, inflight, participantNameInput>>
    /\ IF \E i \in 1..Len(historicalBills) : historicalBills[i].id = billId
       THEN /\ viewingBillDetails' =
                  historicalBills[CHOOSE i \in 1..Len(historicalBills) :
                      historicalBills[i].id = billId]
            /\ appStep' = "VIEW_SUMMARY"
       ELSE UNCHANGED <<viewingBillDetails, appStep>>

viewBillFromHistory(billId) ==
    /\ UNCHANGED nextId
    /\ clearMessages
    /\ UNCHANGED <<currentBill, isLoading, historicalBills, localStorage, inflight,
                   participantNameInput>>
    /\ IF \E i \in 1..Len(historicalBills) : historicalBills[i].id = billId
       THEN /\ viewingBillDetails' =
                  historicalBills[CHOOSE i \in 1..Len(historicalBills) :
                      /\ historicalBills[i].id = billId
                      /\ \A j \in 1..(i - 1) : historicalBills[j].id # billId]
            /\ appStep' = "VIEW_SUMMARY"
       ELSE UNCHANGED <<viewingBillDetails, appStep>>

handleDeleteBill(billId, readOk, writeOk) ==
    /\ UNCHANGED nextId
    /\ LET updatedHistory == deleteBillFromStorage(billId, readOk)
       IN /\ saveBillsToStorage(updatedHistory, writeOk)
          /\ historicalBills' = updatedHistory
    /\ clearMessages
    /\ IF viewingBillDetails # NoBill /\ viewingBillDetails.id = billId
       THEN viewingBillDetails' = NoBill /\ appStep' = "VIEW_HISTORY"
       ELSE UNCHANGED <<viewingBillDetails, appStep>>
    /\ UNCHANGED <<currentBill, isLoading, inflight, participantNameInput>>

\* confirmed: the answer to window.confirm
handleClearHistory(confirmed, writeOk) ==
    /\ UNCHANGED nextId
    /\ UNCHANGED <<currentBill, isLoading, viewingBillDetails, inflight,
                   participantNameInput>>
    /\ IF confirmed
       THEN /\ saveBillsToStorage(<<>>, writeOk)
            /\ historicalBills' = clearAllBillsFromStorage
            /\ clearMessages
            /\ appStep' = "UPLOAD_RECEIPT"
       ELSE /\ clearMessages
            /\ UNCHANGED <<historicalBills, localStorage, appStep>>

\* viewingBillDetails || currentBill
billToDisplay == IF viewingBillDetails # NoBill THEN viewingBillDetails ELSE currentBill

\* viewingBillDetails?.calculatedShares || calculateShares()
sharesToDisplay ==
    IF viewingBillDetails # NoBill THEN viewingBillDetails.calculatedShares
    ELSE calculateShares(currentBill)

handleShareToWhatsApp ==
    /\ UNCHANGED <<billVars, participantNameInput>>
    /\ IF billToDisplay = NoBill
       THEN errorMessage' = "No bill data to share."
       ELSE IF Len(sharesToDisplay) = 0
       THEN errorMessage' = "No participant shares to display for sharing."
       ELSE UNCHANGED errorMessage

\* --------------------------------------------------- receipt analyzer
\* a value of the parsed JSON: a number, null, a non-numeric string, or a
\* missing key
JsonNumber(x) == [t |-> "number", v |-> x]
JsonNull == [t |-> "null"]
JsonString == [t |-> "string"]
JsonMissing == [t |-> "undefined"]

\* Number(value)
toNumber(raw) ==
    IF raw.t = "number" THEN raw.v ELSE IF raw.t = "null" THEN Zero ELSE NaN

\* Number(value) || fallback
numberOr(raw, fallback) ==
    IF IsNaN(toNumber(raw)) \/ IsZero(toNumber(raw)) THEN fallback ELSE toNumber(raw)

\* value !== null && !isNaN(Number(value)) ? Number(value) : 0
amountOrZero(raw) ==
    IF raw # JsonNull /\ ~IsNaN(toNumber(raw)) THEN toNumber(raw) ELSE Zero

validatedItems(items) ==
    [i \in 1..Len(items) |->
        [name |-> IF items[i].name = "" THEN "Unknown Item" ELSE items[i].name,
         quantity |-> numberOr(items[i].quantity, Int2Num(1)),
         price |-> numberOr(items[i].price, Zero)]]

\* what the call comes to: no API key, a rejection with an Error (a transport error)
\* or with another value, an empty text, text that is not JSON, or a JSON object
GeminiReplies ==
    { [kind |-> "nokey"], [kind |-> "error"], [kind |-> "unknown"],
      [kind |-> "empty"], [kind |-> "malformed"],
      [kind |-> "json", items |-> <<>>, tax |-> JsonNull, serviceFee |-> JsonNull],
      [kind |-> "json",
       items |-> << [name |-> "New Item", quantity |-> JsonNumber(Int2Num(1)),
                     price |-> JsonNumber(Int2Num(2))] >>,
       tax |-> JsonNumber(Int2Num(3)), serviceFee |-> JsonMissing],
      [kind |-> "json",
       items |-> << [name |-> "New Item", quantity |-> JsonNull, price |-> JsonString],
                    [name |-> "New Item", quantity |-> JsonNumber(Int2Num(0)),
                     price |-> JsonNumber(Int2Num(2))] >>,
       tax |-> JsonNumber(Int2Num(-1)), serviceFee |-> JsonString] }

\* a receipt read with a quantity beyond the double range
OutOfRangeReplies ==
    { [kind |-> "json",
       items |-> << [name |-> "New Item", quantity |-> JsonNumber(Infinity),
                     price |-> JsonNumber(Int2Num(2))],
                    [name |-> "New Item", quantity |-> JsonNumber(Int2Num(1)),
                     price |-> JsonNumber(Int2Num(2))] >>,
       tax |-> JsonNull, serviceFee |-> JsonNull] }

\* the promise's outcome: the validated result, or the message of the error thrown
analyzeReceiptWithGemini(reply) ==
    IF reply.kind = "json"
    THEN [ok |-> TRUE,
          items |-> validatedItems(reply.items),
          tax |-> amountOrZero(reply.tax),
          serviceFee |-> amountOrZero(reply.serviceFee)]
    ELSE IF reply.kind = "malformed"
    THEN [ok |-> FALSE,
          message |-> "The AI couldn't understand the receipt's structure as expected. Please try with a clearer image or a different receipt. (Details: Malformed JSON response from AI)"]
    ELSE IF reply.kind = "empty"
    THEN [ok |-> FALSE,
          message |-> "Gemini API Error: Received an empty response from the AI after processing. The receipt might be unreadable."]
    ELSE IF reply.kind = "nokey"
    THEN [ok |-> FALSE, message |-> "Gemini API Key is not configured."]
    ELSE IF reply.kind = "unknown"
    THEN [ok |-> FALSE, message |-> "An unknown error occurred while analyzing the receipt."]
    ELSE [ok |-> FALSE, message |-> "Gemini API Error: request failed"]

\* ------------------------------------------------------------- upload
\* file.type as its characters up to and after the slash
ImagePrefix == <<"image", "/">>
startsWith(s, prefix) == Len(s) >= Len(prefix) /\ SubSeq(s, 1, Len(prefix)) = prefix

\* readable: the FileReader ends with a result (not with an error)
Files ==
    { [type |-> <<"image", "/", "png">>, readable |-> TRUE],
      [type |-> <<"image", "/", "png">>, readable |-> FALSE],
      [type |-> <<"text", "/", "plain">>, readable |-> TRUE],
      [type |-> <<>>, readable |-> TRUE] }

\* a faulty variant: setIsLoading(true) ahead of the test of the type
handleImageUploadLoadingFirst(file) ==
    /\ UNCHANGED <<currentBill, appStep, historicalBills, viewingBillDetails, localStorage,
                   participantNameInput, nextId>>
    /\ isLoading' = TRUE
    /\ IF ~startsWith(file.type, ImagePrefix)
       THEN /\ setErrorMessage("Please upload a valid image file.")
            /\ UNCHANGED inflight
       ELSE /\ clearMessages
            /\ inflight' = Append(inflight, [phase |-> "reading", file |-> file, billId |-> 0])

handleImageUpload(file) ==
    /\ UNCHANGED <<currentBill, appStep, historicalBills, viewingBillDetails, localStorage,
                   participantNameInput, nextId>>
    /\ IF ~startsWith(file.type, ImagePrefix)
       THEN /\ setErrorMessage("Please upload a valid image file.")
            /\ UNCHANGED <<isLoading, inflight>>
       ELSE /\ clearMessages
            /\ isLoading' = TRUE
            /\ inflight' = Append(inflight, [phase |-> "reading", file |-> file, billId |-> 0])

withoutTask(tasks, t) == [i \in 1..(Len(tasks) - 1) |-> IF i < t THEN tasks[i] ELSE tasks[i + 1]]

\* reader.onloadend of the t-th pending upload, up to its await
readerOnLoadEnd(t) ==
    /\ UNCHANGED <<appStep, isLoading, errorMessage, historicalBills,
                   viewingBillDetails, localStorage, participantNameInput>>
    /\ IF inflight[t].file.readable
       THEN LET newBillId == generateId(nextId, 0)
            IN /\ nextId' = nextId + 1
               /\ currentBill' =
                      [id |-> newBillId,
                       receiptImage |-> [dataUrl |-> "data", mimeType |-> inflight[t].file.type],
                       extractedItems |-> <<>>,
                       participants |-> <<>>,
                       itemAssignments |-> <<>>,
                       taxAmount |-> Zero,
                       serviceFeeAmount |-> Zero]
               /\ inflight' = [inflight EXCEPT ![t].phase = "analyzing",
                                               ![t].billId = newBillId]
       ELSE \* reader.result is null: the callback throws before anything is set
            /\ inflight' = withoutTask(inflight, t)
            /\ UNCHANGED <<currentBill, nextId>>

\* a faulty variant: the bill made when there is none gets an id of its own
updateBillFromAnalysisFreshId(prev, analysis, billId, next) ==
    LET baseBill == IF prev # NoBill THEN prev
                    ELSE [id |-> generateId(next, Len(analysis.items)), participants |-> <<>>,
                          itemAssignments |-> <<>>, receiptImage |-> NoImage]
        ids == [i \in 1..Len(analysis.items) |-> generateId(next, i - 1)]
    IN [id |-> baseBill.id,
        receiptImage |-> baseBill.receiptImage,
        extractedItems |->
            [i \in 1..Len(analysis.items) |->
                [id |-> ids[i], name |-> analysis.items[i].name,
                 quantity |-> analysis.items[i].quantity, price |-> analysis.items[i].price]],
        participants |-> baseBill.participants,
        itemAssignments |-> baseBill.itemAssignments,
        taxAmount |-> analysis.tax,
        serviceFeeAmount |-> analysis.serviceFee]

\* the bill setCurrentBill(prev => ...) yields
updateBillFromAnalysis(prev, analysis, billId, next) ==
    LET baseBill == IF prev # NoBill THEN prev
                    ELSE [id |-> billId, participants |-> <<>>, itemAssignments |-> <<>>,
                          receiptImage |-> NoImage]
        ids == [i \in 1..Len(analysis.items) |-> generateId(next, i - 1)]
    IN [id |-> baseBill.id,
        receiptImage |-> baseBill.receiptImage,
        extractedItems |->
            [i \in 1..Len(analysis.items) |->
                [id |-> ids[i], name |-> analysis.items[i].name,
                 quantity |-> analysis.items[i].quantity, price |-> analysis.items[i].price]],
        participants |-> baseBill.participants,
        itemAssignments |-> baseBill.itemAssignments,
        taxAmount |-> analysis.tax,
        serviceFeeAmount |-> analysis.serviceFee]

\* the rest of reader.onloadend, once the analyzer's promise settles
analysisSettled(t, reply) ==
    /\ UNCHANGED <<historicalBills, viewingBillDetails, localStorage, participantNameInput>>
    /\ inflight' = withoutTask(inflight, t)
    /\ isLoading' = FALSE
    /\ appStep' = "EDIT_BILL_DETAILS"
    /\ LET outcome == analyzeReceiptWithGemini(reply)
       IN IF outcome.ok
          THEN /\ currentBill' = updateBillFromAnalysis(currentBill, outcome,
                                                          inflight[t].billId, nextId)
               /\ nextId' = nextId + Len(outcome.items)
               /\ UNCHANGED errorMessage
          ELSE /\ errorMessage' = outcome.message
               /\ UNCHANGED <<currentBill, nextId>>

\* ---------------------------------------------------------- rendering
\* renderCurrentStep: which step's controls are on screen
\* a faulty variant: the upload step without the test of isLoading
UploadRenderedWhileLoading == appStep = "UPLOAD_RECEIPT"

UploadRendered == appStep = "UPLOAD_RECEIPT" /\ ~isLoading
EditRendered == appStep = "EDIT_BILL_DETAILS" /\ ~isLoading /\ currentBill # NoBill
SummaryRendered == appStep = "VIEW_SUMMARY" /\ ~isLoading /\ billToDisplay # NoBill
HistoryRendered == appStep = "VIEW_HISTORY" /\ ~isLoading
MessagesRendered == UploadRendered \/ EditRendered \/ SummaryRendered \/ HistoryRendered
\* renderHeader: the start-new-bill button
NewBillRendered == appStep # "UPLOAD_RECEIPT" \/ currentBill # NoBill

\* ------------------------------------------------------- user actions
\* a faulty variant: the history button leaves the viewed bill set
viewHistoryKeepingView ==
    /\ UNCHANGED nextId
    /\ clearMessages
    /\ appStep' = "VIEW_HISTORY"
    /\ UNCHANGED <<currentBill, isLoading, historicalBills, localStorage, inflight,
                   participantNameInput, viewingBillDetails>>

\* the header's history button
viewHistory ==
    /\ UNCHANGED nextId
    /\ clearMessages
    /\ appStep' = "VIEW_HISTORY"
    /\ viewingBillDetails' = NoBill
    /\ UNCHANGED <<currentBill, isLoading, historicalBills, localStorage, inflight,
                   participantNameInput>>

ClickStartNewBill == NewBillRendered /\ startNewBill

ClickViewHistory == viewHistory

SelectFile ==
    \E file \in Files : UploadRendered /\ nextId <= MaxIds /\ handleImageUpload(file)

ReaderLoadEnd ==
    \E t \in 1..Len(inflight) : inflight[t].phase = "reading" /\ readerOnLoadEnd(t)

AnalysisSettled ==
    \E t \in 1..Len(inflight) : \E reply \in GeminiReplies :
        /\ inflight[t].phase = "analyzing"
        /\ reply.kind = "json" => nextId + Len(reply.items) <= MaxIds + 1
        /\ analysisSettled(t, reply)

OutOfRangeAnalysisSettled ==
    \E t \in 1..Len(inflight) : \E reply \in OutOfRangeReplies :
        /\ inflight[t].phase = "analyzing"
        /\ reply.kind = "json" => nextId + Len(reply.items) <= MaxIds + 1
        /\ analysisSettled(t, reply)

DismissError ==
    /\ errorMessage # "" /\ MessagesRendered
    /\ errorMessage' = ""
    /\ UNCHANGED <<billVars, participantNameInput>>

\* "Back to Upload" of the edit step
BackToUpload ==
    /\ UNCHANGED nextId
    /\ EditRendered
    /\ appStep' = "UPLOAD_RECEIPT"
    /\ UNCHANGED <<currentBill, isLoading, historicalBills, viewingBillDetails, localStorage,
                   inflight, errorMessage, participantNameInput>>

TypeParticipantName ==
    \E value \in NameInputs :
        /\ EditRendered /\ value # participantNameInput
        /\ participantNameInput' = value
        /\ UNCHANGED <<billVars, errorMessage>>

ClickAddParticipant ==
    /\ EditRendered
    /\ Len(currentBill.participants) < MaxParticipants /\ nextId <= MaxIds
    /\ handleAddParticipant

ClickRemoveParticipant ==
    /\ EditRendered
    /\ \E p \in ParticipantIds(currentBill) : handleRemoveParticipant(p)

ClickAddItem ==
    /\ EditRendered
    /\ Len(currentBill.extractedItems) < MaxItems /\ nextId <= MaxIds
    /\ handleAddItem

\* the values the name, quantity and price fields of an item can send
itemEdits(item) ==
    {[item EXCEPT !.name = value] : value \in NameEdits}
    \cup {[item EXCEPT !.quantity = value] : value \in QuantityEdits}
    \cup {[item EXCEPT !.price = value] : value \in PriceInputs}

EditItem ==
    /\ EditRendered
    /\ \E i \in 1..Len(currentBill.extractedItems) :
        \E updatedItem \in itemEdits(currentBill.extractedItems[i]) :
            /\ updatedItem # currentBill.extractedItems[i]
            /\ handleUpdateItem(updatedItem)

\* the select is disabled without participants; its options are "" and the participants
SelectAssignment ==
    /\ EditRendered
    /\ \E itemId \in ItemIds(currentBill) :
        \E participantId \in {NullId} \cup ParticipantIds(currentBill) :
            /\ Len(currentBill.participants) # 0
            /\ participantId # assignmentOf(currentBill, itemId)
            /\ handleAssignItem(itemId, participantId)

ClickRemoveItem ==
    /\ EditRendered
    /\ \E itemId \in ItemIds(currentBill) : handleRemoveItem(itemId)

TypeTax == \E amount \in TaxInputs : EditRendered /\ handleUpdateTax(amount)

TypeServiceFee == \E amount \in FeeInputs : EditRendered /\ handleUpdateServiceFee(amount)

ClickDefaultServiceFee == EditRendered /\ handleSetDefaultServiceFee

ClickViewSummary == EditRendered /\ handleViewSummary

\* "Back" of the summary step
SummaryBack ==
    /\ UNCHANGED nextId
    /\ SummaryRendered
    /\ IF viewingBillDetails # NoBill
       THEN viewingBillDetails' = NoBill /\ appStep' = "VIEW_HISTORY"
       ELSE appStep' = "EDIT_BILL_DETAILS" /\ UNCHANGED viewingBillDetails
    /\ UNCHANGED <<currentBill, isLoading, historicalBills, localStorage, inflight,
                   errorMessage, participantNameInput>>

ClickSaveBill ==
    \E readOk \in BOOLEAN : \E writeOk \in BOOLEAN :
        /\ SummaryRendered /\ viewingBillDetails = NoBill
        /\ handleSaveBill(readOk, writeOk)

ClickShare == SummaryRendered /\ handleShareToWhatsApp

ClickViewBill ==
    \E i \in 1..Len(historicalBills) :
        HistoryRendered /\ viewBillFromHistory(historicalBills[i].id)

ClickDeleteBill ==
    \E i \in 1..Len(historicalBills) : \E readOk \in BOOLEAN : \E writeOk \in BOOLEAN :
        HistoryRendered /\ handleDeleteBill(historicalBills[i].id, readOk, writeOk)

ClickClearHistory ==
    \E confirmed \in BOOLEAN : \E writeOk \in BOOLEAN :
        /\ HistoryRendered /\ Len(historicalBills) > 0
        /\ handleClearHistory(confirmed, writeOk)

\* the page is opened again: useState's initial values, then the mount effect
AppMount ==
    \E readOk \in BOOLEAN :
        /\ currentBill' = NoBill
        /\ appStep' = "UPLOAD_RECEIPT"
        /\ isLoading' = FALSE
        /\ errorMessage' = ""
        /\ participantNameInput' = <<>>
        /\ viewingBillDetails' = NoBill
        /\ inflight' = <<>>
        /\ historicalBills' = loadBillsFromStorage(readOk)
        /\ UNCHANGED <<localStorage, nextId>>

\* ------------------------------------------------------ specification
\* a bill saved by an earlier visit: one item, assigned to the one participant
EarlierBill ==
    billToSave([id |-> 1,
                receiptImage |-> [dataUrl |-> "data", mimeType |-> <<"image", "/", "png">>],
                extractedItems |-> << [id |-> 3, name |-> "New Item", quantity |-> Int2Num(1),
                                       price |-> Int2Num(2)] >>,
                participants |-> << [id |-> 2, name |-> <<"A">>] >>,
                itemAssignments |-> [k \in {3} |-> 2],
                taxAmount |-> Zero,
                serviceFeeAmount |-> Zero])

\* the page is opened with the earlier visit's history in localStorage
Init ==
    /\ currentBill = NoBill
    /\ appStep = "UPLOAD_RECEIPT"
    /\ isLoading = FALSE
    /\ errorMessage = ""
    /\ historicalBills = <<EarlierBill>>
    /\ participantNameInput = <<>>
    /\ viewingBillDetails = NoBill
    /\ localStorage = <<EarlierBill>>
    /\ inflight = <<>>
    /\ nextId = 4

Next ==
    \/ ClickStartNewBill
    \/ ClickViewHistory
    \/ SelectFile
    \/ ReaderLoadEnd
    \/ AnalysisSettled
    \/ DismissError
    \/ BackToUpload
    \/ TypeParticipantName
    \/ ClickAddParticipant
    \/ ClickRemoveParticipant
    \/ ClickAddItem
    \/ EditItem
    \/ SelectAssignment
    \/ ClickRemoveItem
    \/ TypeTax
    \/ TypeServiceFee
    \/ ClickDefaultServiceFee
    \/ ClickViewSummary
    \/ SummaryBack
    \/ ClickSaveBill
    \/ ClickShare
    \/ ClickViewBill
    \/ ClickDeleteBill
    \/ ClickClearHistory
    \/ AppMount

Spec == Init /\ [][Next]_vars

\* the same program when the analyzer's replies are those of OutOfRangeReplies
NextOutOfRange ==
    \/ ClickStartNewBill
    \/ ClickViewHistory
    \/ SelectFile
    \/ ReaderLoadEnd
    \/ OutOfRangeAnalysisSettled
    \/ DismissError
    \/ BackToUpload
    \/ TypeParticipantName
    \/ ClickAddParticipant
    \/ ClickRemoveParticipant
    \/ ClickAddItem
    \/ EditItem
    \/ SelectAssignment
    \/ ClickRemoveItem
    \/ TypeTax
    \/ TypeServiceFee
    \/ ClickDefaultServiceFee
    \/ ClickViewSummary
    \/ SummaryBack
    \/ ClickSaveBill
    \/ ClickShare
    \/ ClickViewBill
    \/ ClickDeleteBill
    \/ ClickClearHistory
    \/ AppMount

SpecOutOfRange == Init /\ [][NextOutOfRange]_vars

\* ------------------------------- calculateShares as a function of the bill
MaxCalcParticipants == 3
MaxCalcItems == 2

\* what the price, tax and service fee fields can hold (a negative price comes from the
\* analyzer or from the keyboard: handleUpdateItem takes what parseFloat returns, which
\* is the double nearest to 0.1 for the text 0.1); 10000 of 30000 is a third, which no
\* double is, and 20000 + 0.1 is not a double either
CalcPrices ==
    {Int2Num(0), Int2Num(10000), Int2Num(20000), Int2Num(30000), Int2Num(-20000),
     Div(Int2Num(1), Int2Num(10))}
CalcTaxes == {Int2Num(0), Int2Num(5000), Int2Num(90000)}
CalcFees == {Int2Num(0), Int2Num(5000)}
CalcNames == <<"A", "B", "C", "D">>

\* a bill in the edit step: n participants (ids 1..n), then one item per price
CalcBill(n, prices, assignments, tax, fee) ==
    [id |-> n + Len(prices) + 1,
     receiptImage |-> [dataUrl |-> "data", mimeType |-> <<"image", "/", "png">>],
     extractedItems |->
        [i \in 1..Len(prices) |->
            [id |-> n + i, name |-> "New Item", quantity |-> Int2Num(1), price |-> prices[i]]],
     participants |-> [i \in 1..n |-> [id |-> i, name |-> <<CalcNames[i]>>]],
     itemAssignments |-> assignments,
     taxAmount |-> tax,
     serviceFeeAmount |-> fee]

\* every item has no key, null, or a participant of the bill
InitCalc ==
    \E n \in 0..MaxCalcParticipants : \E m \in 0..MaxCalcItems :
    \E prices \in [1..m -> CalcPrices] :
    \E keys \in SUBSET ((n + 1)..(n + m)) : \E assignments \in [keys -> 0..n] :
    \E tax \in CalcTaxes : \E fee \in CalcFees :
        /\ currentBill = CalcBill(n, prices, assignments, tax, fee)
        /\ appStep = "EDIT_BILL_DETAILS"
        /\ isLoading = FALSE
        /\ errorMessage = ""
        /\ historicalBills = <<>>
        /\ participantNameInput = <<>>
        /\ viewingBillDetails = NoBill
        /\ localStorage = <<>>
        /\ inflight = <<>>
        /\ nextId = n + m + 2

\* handleSaveBill freezes calculateShares() of the bill into the history
SaveCalc == currentBill # NoBill /\ handleSaveBill(TRUE, TRUE)

SpecCalc == InitCalc /\ [][SaveCalc]_vars

\* --------------------------- handleSetDefaultServiceFee as a function of the bill
\* the default fee button on a bill of the edit step
DefaultFeeCalc == currentBill # NoBill /\ handleSetDefaultServiceFee

SpecFee == InitCalc /\ [][DefaultFeeCalc]_vars

\* ========================================================= properties
\* ------------------------------------------------------------------ C1
C1_ValuesAreParticipants ==
    currentBill # NoBill =>
        \A k \in DOMAIN currentBill.itemAssignments :
            currentBill.itemAssignments[k] # NullId =>
                currentBill.itemAssignments[k] \in ParticipantIds(currentBill)

\* what a step of handleRemoveParticipant(p) leaves behind
C1_Removed(p) ==
    /\ \A k \in DOMAIN currentBill'.itemAssignments : currentBill'.itemAssignments[k] # p
    /\ \A i \in ItemIds(currentBill) :
           assignmentOf(currentBill, i) = p =>
               /\ i \in ItemIds(currentBill')
               /\ assignmentOf(currentBill', i) = NullId

\* C1: in every state with an in-progress bill each assignment that is not null names a
\* participant of the bill, and no step of handleRemoveParticipant(p) from such a state
\* leaves an item assigned to p, drops an item p owned or leaves it assigned
C1_AssignmentsNameParticipants ==
    /\ C1_ValuesAreParticipants
    /\ currentBill # NoBill =>
           \A p \in ParticipantIds(currentBill) :
               ~ENABLED (handleRemoveParticipant(p) /\ ~C1_Removed(p))

\* a participant who owns an item can be removed while another participant stays
C1_Witness ==
    /\ EditRendered
    /\ ENABLED (/\ ClickRemoveParticipant
                /\ Len(currentBill'.participants) = 1
                /\ Len(currentBill'.extractedItems) = 1
                /\ DOMAIN currentBill.itemAssignments # {}
                /\ DOMAIN currentBill'.itemAssignments = {})

\* ------------------------------------------------------------------ C2
C2_KeysAreItems ==
    currentBill # NoBill => DOMAIN currentBill.itemAssignments \subseteq ItemIds(currentBill)

\* C2: in every state with an in-progress bill each key of itemAssignments is the id of
\* an item of the bill, and no step of handleRemoveItem(i) from such a state leaves a key i
C2_AssignmentKeysAreItems ==
    /\ C2_KeysAreItems
    /\ currentBill # NoBill =>
           \A i \in ItemIds(currentBill) \cup DOMAIN currentBill.itemAssignments :
               ~ENABLED (handleRemoveItem(i) /\ i \in DOMAIN currentBill'.itemAssignments)

\* an assigned item can be removed while another item stays
C2_Witness ==
    /\ EditRendered
    /\ ENABLED (/\ ClickRemoveItem
                /\ Len(currentBill'.extractedItems) = 1
                /\ DOMAIN currentBill.itemAssignments # {}
                /\ DOMAIN currentBill'.itemAssignments = {})

\* ------------------------------------------------------------------ C3
\* the four gates of the summary: a bill, a participant, an item, every item assigned
C3_Gates ==
    /\ currentBill # NoBill
    /\ Len(currentBill.participants) >= 1
    /\ Len(currentBill.extractedItems) >= 1
    /\ \A i \in 1..Len(currentBill.extractedItems) :
           assignmentOf(currentBill, currentBill.extractedItems[i].id) # NullId

\* C3: whenever appStep is VIEW_SUMMARY and no stored bill is being viewed, the four gates
\* hold of the in-progress bill, and no step of handleViewSummary moves appStep to
\* VIEW_SUMMARY from a state where a gate fails
C3_LiveSummaryPassedGates ==
    /\ (appStep = "VIEW_SUMMARY" /\ viewingBillDetails = NoBill) => C3_Gates
    /\ (~C3_Gates /\ appStep # "VIEW_SUMMARY") =>
           ~ENABLED (handleViewSummary /\ appStep' = "VIEW_SUMMARY")

\* the summary of an in-progress bill with two items is on screen
C3_Witness ==
    /\ SummaryRendered /\ viewingBillDetails = NoBill /\ currentBill # NoBill
    /\ Len(currentBill.extractedItems) = 2

\* ------------------------------------------------------------------ C4
\* the number of items with no assignment
C4_Unassigned ==
    Cardinality({i \in 1..Len(currentBill.extractedItems) :
                    assignmentOf(currentBill, currentBill.extractedItems[i].id) = NullId})

\* the message of the first gate that fails
C4_Message ==
    IF currentBill = NoBill THEN "No bill data available."
    ELSE IF Len(currentBill.participants) = 0
    THEN "Please add participants before viewing summary."
    ELSE IF Len(currentBill.extractedItems) = 0 THEN "Please add items to the bill."
    ELSE "Please assign all items. " \o ToString(C4_Unassigned) \o " item(s) are unassigned."

\* the messages of the four gates, for every count of unassigned items
C4_Messages ==
    {"No bill data available.", "Please add participants before viewing summary.",
     "Please add items to the bill."}
    \cup {"Please assign all items. " \o ToString(k) \o " item(s) are unassigned." :
             k \in 1..(MaxItems + 1)}

\* C4: a step of handleViewSummary from a state where a gate fails changes neither appStep
\* nor the bill and sets errorMessage to the failing gate's message, which is not empty,
\* differs from the other gates' messages and, for unassigned items, states their number;
\* a step of handleViewSummary from a state where the gates hold ends in VIEW_SUMMARY,
\* whatever message a rejected attempt left behind
C4_RejectsThenAdvances ==
    /\ Cardinality(C4_Messages) = 4 + MaxItems /\ "" \notin C4_Messages
    /\ ~C3_Gates =>
           ~ENABLED (/\ handleViewSummary
                     /\ ~(/\ appStep' = appStep
                           /\ currentBill' = currentBill
                           /\ errorMessage' = C4_Message))
    /\ C3_Gates => ~ENABLED (handleViewSummary /\ appStep' # "VIEW_SUMMARY")

\* both items were unassigned at the last attempt; they are assigned now and the button
\* leads to the summary
C4_Witness ==
    /\ EditRendered /\ C3_Gates
    /\ errorMessage = "Please assign all items. 2 item(s) are unassigned."
    /\ ENABLED (ClickViewSummary /\ appStep' = "VIEW_SUMMARY")

\* ------------------------------------------- the arithmetic of the shares
\* the sum of F over a sequence
\* The sums and products of mathematics on the values of doubles (nothing is rounded),
\* to measure how far a sum the program rounded is from the sum it stands for.
Neg(a) == [a EXCEPT !.s = -SignOf(a)]
AbsNum(a) == [a EXCEPT !.s = 1]
ExactSub(a, b) == ExactAdd(a, Neg(b))
RECURSIVE ExactSum(_)
ExactSum(s) ==
    IF s = <<>> THEN Zero ELSE ExactAdd(ExactSum(SubSeq(s, 1, Len(s) - 1)), s[Len(s)])
ExactSumBy(s, F(_)) == ExactSum([i \in 1..Len(s) |-> F(s[i])])
\* a * 2^k
TimesPow2(a, k) == IF a.m = <<>> THEN a ELSE [a EXCEPT !.e = @ + k]
\* a <= b, a = b as numbers
Le(a, b) == Cmp(a, b) <= 0
NumEq(a, b) == Cmp(a, b) = 0
\* neither an overflow (Infinity, NaN) nor an underflow (below 2^-1022 and not zero)
InRange(x) == IsFinite(x) /\ (IsZero(x) \/ TopBit(x) >= -1021)

\* the sum of the absolute values of all item prices
AbsPriceTotal(b) == ExactSumBy(b.extractedItems, LAMBDA item : AbsNum(item.price))

\* calculateShares neither overflowed nor underflowed on the bill: the sum of the
\* prices, the subtotals, the proportions (which the proportional branch computes), the
\* fee shares and the totals
SharesInRange(b, shares) ==
    /\ InRange(SumSeq([i \in 1..Len(b.extractedItems) |-> b.extractedItems[i].price]))
    /\ InRange(b.taxAmount) /\ InRange(b.serviceFeeAmount)
    /\ \A i \in 1..Len(b.extractedItems) : IsFinite(b.extractedItems[i].price)
    /\ \A k \in 1..Len(shares) :
           /\ InRange(shares[k].subtotal) /\ InRange(shares[k].taxShare)
           /\ InRange(shares[k].serviceFeeShare) /\ InRange(shares[k].totalOwed)
           /\ Gt(SumSeq([i \in 1..Len(b.extractedItems) |-> b.extractedItems[i].price]), Zero)
                  => InRange(Div(shares[k].subtotal,
                                 SumSeq([i \in 1..Len(b.extractedItems) |->
                                             b.extractedItems[i].price])))

SumBy(s, F(_)) == SumSeq([i \in 1..Len(s) |-> F(s[i])])

\* T: the sum of all item prices of a bill
PriceTotal(b) == SumBy(b.extractedItems, LAMBDA item : item.price)

\* the sum of the prices of the items assigned to participant pid
OwnedTotal(b, pid) ==
    SumBy(SelectSeq(b.extractedItems, LAMBDA item : assignmentOf(b, item.id) = pid),
          LAMBDA item : item.price)

\* every item is assigned to a participant of the bill
AllAssigned(b) ==
    \A i \in 1..Len(b.extractedItems) :
        assignmentOf(b, b.extractedItems[i].id) \in ParticipantIds(b)

\* the bills handleSaveBill stored, each with the shares it froze
StoredBills == SeqToSet(historicalBills)

\* ------------------------------------------------------------------ C5
\* the shares of the tax and of the service fee sum to the amounts
C5_FeesAreShared(b) ==
    /\ NumEq(ExactSumBy(b.calculatedShares, LAMBDA share : share.taxShare), b.taxAmount)
    /\ NumEq(ExactSumBy(b.calculatedShares, LAMBDA share : share.serviceFeeShare),
             b.serviceFeeAmount)

\* the sum of the shares is within m * 2^-50 * |amount| * P / T of the amount, for the
\* m items of the bill, P the sum of the absolute values of their prices and T their sum
C5_Within(b, sumOfShares, amount) ==
    Le(ExactMul(AbsNum(ExactSub(sumOfShares, amount)), PriceTotal(b)),
       TimesPow2(ExactMul(ExactMul(Int2Num(Len(b.extractedItems)), AbsNum(amount)),
                          AbsPriceTotal(b)), -50))

C5_FeesAreSharedWithin(b) ==
    /\ C5_Within(b, ExactSumBy(b.calculatedShares, LAMBDA share : share.taxShare),
                 b.taxAmount)
    /\ C5_Within(b, ExactSumBy(b.calculatedShares, LAMBDA share : share.serviceFeeShare),
                 b.serviceFeeAmount)

\* C5 as stated: for every bill with a participant whose prices sum to more than zero,
\* with or without unassigned items, the tax shares sum to taxAmount and the service fee
\* shares to serviceFeeAmount, exactly
C5_Original ==
    \A b \in StoredBills :
        (Len(b.participants) >= 1 /\ Gt(PriceTotal(b), Zero)) => C5_FeesAreShared(b)

\* C5 amended: for every bill with a participant whose prices sum to more than zero and
\* whose items are all assigned to participants of the bill, the tax shares sum to
\* taxAmount and the service fee shares to serviceFeeAmount up to the rounding of the
\* double arithmetic: the sum of the shares is within m * 2^-50 * |amount| * P / T of the
\* amount, when no sum, proportion or share overflowed or underflowed
C5_FeeSharesSumWhenAllAssigned ==
    \A b \in StoredBills :
        (/\ Len(b.participants) >= 1 /\ Gt(PriceTotal(b), Zero) /\ AllAssigned(b)
         /\ SharesInRange(b, b.calculatedShares))
            => C5_FeesAreSharedWithin(b)

\* two participants own items of different prices, with a tax and a service fee to
\* share, and the tax shares are rounded: their sum is not the tax
C5_Witness ==
    \E b \in StoredBills :
        /\ Len(b.participants) = 2 /\ Len(b.extractedItems) = 2 /\ AllAssigned(b)
        /\ Gt(b.taxAmount, Zero) /\ Gt(b.serviceFeeAmount, Zero)
        /\ Gt(b.calculatedShares[2].subtotal, b.calculatedShares[1].subtotal)
        /\ Gt(b.calculatedShares[1].subtotal, Zero)
        /\ SharesInRange(b, b.calculatedShares)
        /\ ~NumEq(ExactSumBy(b.calculatedShares, LAMBDA share : share.taxShare), b.taxAmount)

\* ------------------------------------------------------------------ C6
\* the items that have an assignment
C6_Assigned(b) ==
    SelectSeq(b.extractedItems, LAMBDA item : assignmentOf(b, item.id) # NullId)

C6_AssignedTotal(b) == ExactSumBy(C6_Assigned(b), LAMBDA item : item.price)

C6_EveryItemAssigned(b) ==
    \A i \in 1..Len(b.extractedItems) : assignmentOf(b, b.extractedItems[i].id) # NullId

\* the subtotals sum to the prices of the assigned items
C6_SubtotalsAre(b, shares) ==
    /\ NumEq(ExactSumBy(shares, LAMBDA share : share.subtotal), C6_AssignedTotal(b))
    /\ C6_EveryItemAssigned(b)
           => NumEq(ExactSumBy(shares, LAMBDA share : share.subtotal),
                    ExactSumBy(b.extractedItems, LAMBDA item : item.price))

\* the sum of the subtotals is within m * 2^-52 * A of the sum of the prices, for a
\* bill of m items and the sum A of the absolute values of the prices summed
C6_Within(b, shares, items) ==
    Le(AbsNum(ExactSub(ExactSumBy(shares, LAMBDA share : share.subtotal),
                       ExactSumBy(items, LAMBDA item : item.price))),
       TimesPow2(ExactMul(Int2Num(Len(b.extractedItems)),
                          ExactSumBy(items, LAMBDA item : AbsNum(item.price))), -52))

C6_SubtotalsAreWithin(b, shares) ==
    (/\ \A i \in 1..Len(b.extractedItems) : IsFinite(b.extractedItems[i].price)
     /\ \A k \in 1..Len(shares) : IsFinite(shares[k].subtotal))
        => /\ C6_Within(b, shares, C6_Assigned(b))
           /\ C6_EveryItemAssigned(b) => C6_Within(b, shares, b.extractedItems)

\* C6 as stated: for every reachable bill with a participant, in progress or stored, the
\* subtotals of its shares sum to the sum of the prices of the items with an assignment,
\* which is the sum of all prices when every item has one
C6_Original ==
    /\ (currentBill # NoBill /\ Len(currentBill.participants) >= 1)
           => C6_SubtotalsAre(currentBill, calculateShares(currentBill))
    /\ \A b \in StoredBills :
           Len(b.participants) >= 1 => C6_SubtotalsAre(b, b.calculatedShares)

\* C6 amended: for every reachable bill with a participant, in progress or stored, the
\* subtotals of its shares sum to the sum of the prices of the items with an assignment,
\* which is the sum of all prices when every item has one, up to the rounding of the
\* double additions: the two sums are within m * 2^-52 * A of each other, when no
\* subtotal overflowed
C6_SubtotalsSumToAssignedPrices ==
    /\ (currentBill # NoBill /\ Len(currentBill.participants) >= 1)
           => C6_SubtotalsAreWithin(currentBill, calculateShares(currentBill))
    /\ \A b \in StoredBills :
           Len(b.participants) >= 1 => C6_SubtotalsAreWithin(b, b.calculatedShares)

\* a bill in progress with a priced item assigned and a priced item unassigned
C6_Witness ==
    /\ currentBill # NoBill /\ Len(currentBill.participants) >= 1
    /\ Len(currentBill.extractedItems) = 2
    /\ Gt(C6_AssignedTotal(currentBill), Zero)
    /\ Gt(PriceTotal(currentBill), C6_AssignedTotal(currentBill))

\* ------------------------------------------------------------------ C7
\* the share of participant number k
C7_Proportional(b, k) ==
    LET share == b.calculatedShares[k]
        owned == OwnedTotal(b, b.participants[k].id)
    IN /\ share.subtotal = owned
       /\ share.taxShare = Mul(b.taxAmount, Div(owned, PriceTotal(b)))
       /\ share.serviceFeeShare = Mul(b.serviceFeeAmount, Div(owned, PriceTotal(b)))
       /\ IsZero(owned) => (IsZero(share.taxShare) /\ IsZero(share.serviceFeeShare))

\* prices 20000 to A and 30000 to B, tax 5000, no service fee
C7_Example(b) ==
    /\ Len(b.participants) = 2 /\ Len(b.extractedItems) = 2
    /\ b.extractedItems[1].price = Int2Num(20000)
    /\ b.extractedItems[2].price = Int2Num(30000)
    /\ assignmentOf(b, b.extractedItems[1].id) = b.participants[1].id
    /\ assignmentOf(b, b.extractedItems[2].id) = b.participants[2].id
    /\ b.taxAmount = Int2Num(5000) /\ b.serviceFeeAmount = Zero

\* C7: when the sum T of all item prices, unassigned ones included, is greater than zero,
\* each participant's taxShare is taxAmount times the proportion subtotal / T and
\* serviceFeeShare is serviceFeeAmount times subtotal / T (the quotient and the product
\* of doubles), both zero for a subtotal of zero; in every branch
\* totalOwed = subtotal + taxShare + serviceFeeShare, added in this order; the example
\* gives tax shares 2000 and 3000 and totals 22000 and 33000
C7_NormalCaseIsProportional ==
    \A b \in StoredBills :
        /\ Len(b.calculatedShares) = Len(b.participants)
        /\ \A k \in 1..Len(b.participants) :
               /\ Gt(PriceTotal(b), Zero) => C7_Proportional(b, k)
               /\ b.calculatedShares[k].totalOwed =
                      Add(Add(b.calculatedShares[k].subtotal, b.calculatedShares[k].taxShare),
                          b.calculatedShares[k].serviceFeeShare)
        /\ C7_Example(b) =>
               /\ b.calculatedShares[1].taxShare = Int2Num(2000)
               /\ b.calculatedShares[2].taxShare = Int2Num(3000)
               /\ b.calculatedShares[1].totalOwed = Int2Num(22000)
               /\ b.calculatedShares[2].totalOwed = Int2Num(33000)

\* the example's bill has been stored
C7_Witness == \E b \in StoredBills : C7_Example(b)

\* ------------------------------------------------------------------ C8
C8_Degenerate(b) ==
    /\ Len(b.participants) >= 1
    /\ StrictEq(PriceTotal(b), Zero)
    /\ (Gt(b.taxAmount, Zero) \/ Gt(b.serviceFeeAmount, Zero))

\* C8: when the item prices sum to exactly zero and taxAmount or serviceFeeAmount is
\* greater than zero, every participant's taxShare is taxAmount / n and serviceFeeShare
\* is serviceFeeAmount / n for the n participants; tax 90000 and three participants give
\* 30000 each
C8_DegenerateCaseIsEqualSplit ==
    \A b \in StoredBills :
        C8_Degenerate(b) =>
            /\ Len(b.calculatedShares) = Len(b.participants)
            /\ \A k \in 1..Len(b.participants) :
                   /\ b.calculatedShares[k].taxShare =
                          Div(b.taxAmount, Int2Num(Len(b.participants)))
                   /\ b.calculatedShares[k].serviceFeeShare =
                          Div(b.serviceFeeAmount, Int2Num(Len(b.participants)))
                   /\ (b.taxAmount = Int2Num(90000) /\ Len(b.participants) = 3)
                          => b.calculatedShares[k].taxShare = Int2Num(30000)

\* three participants, tax 90000, items that sum to zero
C8_Witness ==
    \E b \in StoredBills :
        /\ C8_Degenerate(b) /\ Len(b.participants) = 3 /\ Len(b.extractedItems) >= 1
        /\ b.taxAmount = Int2Num(90000)

\* ------------------------------------------------------------------ C9
C9_Finite(shares) ==
    \A k \in 1..Len(shares) :
        /\ IsFinite(shares[k].subtotal) /\ IsFinite(shares[k].taxShare)
        /\ IsFinite(shares[k].serviceFeeShare) /\ IsFinite(shares[k].totalOwed)

C9_NoFees(b) ==
    /\ Len(b.participants) >= 1
    /\ StrictEq(PriceTotal(b), Zero)
    /\ StrictEq(b.taxAmount, Zero) /\ StrictEq(b.serviceFeeAmount, Zero)

C9_AllZero(share) ==
    /\ StrictEq(share.subtotal, Zero) /\ StrictEq(share.taxShare, Zero)
    /\ StrictEq(share.serviceFeeShare, Zero) /\ StrictEq(share.totalOwed, Zero)

C9_EmptyWithoutParticipants ==
    /\ calculateShares(NoBill) = <<>>
    /\ \A b \in StoredBills : Len(b.participants) = 0 => b.calculatedShares = <<>>

\* C9 as stated: no share is the result of a division by zero; when the prices sum to
\* zero and both fees are zero every share has subtotal, taxShare, serviceFeeShare and
\* totalOwed zero; without participants or without a bill the result is empty
C9_Original ==
    /\ \A b \in StoredBills :
           /\ C9_Finite(b.calculatedShares)
           /\ C9_NoFees(b) =>
                  \A k \in 1..Len(b.calculatedShares) : C9_AllZero(b.calculatedShares[k])
    /\ C9_EmptyWithoutParticipants

\* C9 amended: no share is the result of a division by zero; when the prices sum to zero
\* and both fees are zero every share has taxShare and serviceFeeShare zero and totalOwed
\* equal to its subtotal, the sum of the prices of the participant's items, all of them
\* zero when no price is negative; without participants or without a bill the result is
\* empty
C9_NoDivisionByZero ==
    /\ \A b \in StoredBills :
           /\ C9_Finite(b.calculatedShares)
           /\ C9_NoFees(b) =>
                  \A k \in 1..Len(b.calculatedShares) :
                      LET share == b.calculatedShares[k]
                      IN /\ StrictEq(share.taxShare, Zero)
                         /\ StrictEq(share.serviceFeeShare, Zero)
                         /\ share.subtotal = OwnedTotal(b, b.participants[k].id)
                         /\ share.totalOwed = share.subtotal
                         /\ (\A i \in 1..Len(b.extractedItems) :
                                ~Gt(Zero, b.extractedItems[i].price)) => C9_AllZero(share)
    /\ C9_EmptyWithoutParticipants

\* a stored bill whose prices cancel, with no fees: one participant owes, one is owed
C9_Witness ==
    \E b \in StoredBills :
        /\ C9_NoFees(b) /\ Len(b.participants) = 2
        /\ Gt(b.calculatedShares[1].subtotal, Zero)
        /\ Gt(Zero, b.calculatedShares[2].subtotal)

\* ----------------------------------------------------------------- C10
\* B's fields, with the shares calculated on B
C10_StoredFrom(stored, bill) ==
    /\ DOMAIN stored = DOMAIN bill \cup {"calculatedShares"}
    /\ \A f \in DOMAIN bill : stored[f] = bill[f]
    /\ stored.calculatedShares = calculateShares(bill)

C10_Saved ==
    /\ Len(historicalBills') = Len(historicalBills) + 1
    /\ C10_StoredFrom(historicalBills'[1], currentBill)
    /\ Tail(historicalBills') = historicalBills
    /\ currentBill' = NoBill
    /\ appStep' = "UPLOAD_RECEIPT"

\* C10: a step of handleSaveBill on an in-progress bill B (the summary's Save button)
\* ends with the history equal to the stored bill, B's fields plus calculateShares of B,
\* followed by the previous history in its order, with no in-progress bill and appStep
\* UPLOAD_RECEIPT; without an in-progress bill it changes neither history nor appStep
C10_SavePrependsToHistory ==
    [][/\ ClickSaveBill => C10_Saved
       /\ (currentBill = NoBill
            /\ \E readOk \in BOOLEAN : \E writeOk \in BOOLEAN : handleSaveBill(readOk, writeOk))
           => (historicalBills' = historicalBills /\ appStep' = appStep)]_vars

\* ----------------------------------------------------------------- C11
\* the bills of the history list and of the persisted list
C11_Record == SeqToSet(historicalBills) \cup SeqToSet(localStorage)

\* C11: a bill of the history, in memory or persisted, is the same value after every step
\* in which a bill with its id is still there (upload, analysis result, edits, later
\* saves, viewing, deleting another bill, reopening the page), and no two different
\* values are ever held under one id
C11_StoredBillsAreFrozen ==
    /\ [](\A b \in C11_Record : \A c \in C11_Record : c.id = b.id => c = b)
    /\ [][\A b \in C11_Record : \A c \in C11_Record' : c.id = b.id => c = b]_vars

\* ----------------------------------------------------------------- C12
\* what a step of viewBillFromHistory leaves behind for the stored bill b
C12_Viewed(b) ==
    /\ appStep' = "VIEW_SUMMARY"
    /\ viewingBillDetails' = b
    /\ billToDisplay' = b
    /\ sharesToDisplay' = b.calculatedShares
    /\ currentBill' = currentBill
    /\ historicalBills' = historicalBills

\* C12: from every reachable state, a step of viewBillFromHistory(id) for the id of a bill
\* in history ends with appStep VIEW_SUMMARY, viewingBillDetails that stored bill, the
\* summary and the share message built from its stored calculatedShares, and currentBill
\* and the history as they were; for an id that is not in history the step changes
\* neither appStep nor viewingBillDetails
C12_ViewShowsStoredBill ==
    \A billId \in 1..nextId :
        IF \E b \in StoredBills : b.id = billId
        THEN \A b \in StoredBills :
                b.id = billId => ~ENABLED (viewBillFromHistory(billId) /\ ~C12_Viewed(b))
        ELSE ~ENABLED (/\ viewBillFromHistory(billId)
                       /\ ~(appStep' = appStep /\ viewingBillDetails' = viewingBillDetails))

\* a stored bill is on the summary while a bill with a participant is in progress, whose
\* own shares differ from the ones shown
C12_Witness ==
    /\ SummaryRendered /\ viewingBillDetails \in StoredBills
    /\ currentBill # NoBill /\ Len(currentBill.participants) >= 1
    /\ sharesToDisplay = viewingBillDetails.calculatedShares
    /\ sharesToDisplay # calculateShares(currentBill)

\* ----------------------------------------------------------------- C13
\* C13: whenever the history's clear button is on screen, a step of handleClearHistory
\* with the confirmation accepted ends with appStep UPLOAD_RECEIPT, an empty history, no
\* in-progress bill and no viewed bill, and a step with the confirmation declined changes
\* nothing but the messages
C13_ClearDiscardsBills ==
    (HistoryRendered /\ Len(historicalBills) > 0) =>
        /\ ~ENABLED (\E writeOk \in BOOLEAN :
                        /\ handleClearHistory(TRUE, writeOk)
                        /\ ~(/\ appStep' = "UPLOAD_RECEIPT"
                              /\ historicalBills' = <<>>
                              /\ currentBill' = NoBill
                              /\ viewingBillDetails' = NoBill))
        /\ ~ENABLED (\E writeOk \in BOOLEAN :
                        /\ handleClearHistory(FALSE, writeOk)
                        /\ ~(UNCHANGED <<billVars, participantNameInput>>))

\* ----------------------------------------------------------------- C14
\* C14: from every reachable state, a step of startNewBill ends with appStep
\* UPLOAD_RECEIPT, no in-progress bill, no viewed bill and the history list as it was
C14_StartNewBillResets ==
    ~ENABLED (/\ startNewBill
              /\ ~(/\ appStep' = "UPLOAD_RECEIPT"
                    /\ currentBill' = NoBill
                    /\ viewingBillDetails' = NoBill
                    /\ historicalBills' = historicalBills))

\* a stored bill is on the summary while a bill is in progress, and the header's button
\* drops both
C14_Witness ==
    /\ appStep = "VIEW_SUMMARY" /\ viewingBillDetails # NoBill /\ currentBill # NoBill
    /\ Len(historicalBills) > 0
    /\ ENABLED (/\ ClickStartNewBill
                /\ currentBill' = NoBill /\ viewingBillDetails' = NoBill
                /\ appStep' = "UPLOAD_RECEIPT")

\* ----------------------------------------------------------------- C15
\* the amounts the two handlers are tried with: below zero, zero and above zero
C15_Amounts == {Int2Num(-1), Zero, Int2Num(3)}

\* C15: in every reachable state with an in-progress bill neither taxAmount nor
\* serviceFeeAmount is below zero, after the tax and service fee fields and after an
\* analyzer result alike, and no step of handleUpdateTax or handleUpdateServiceFee stores
\* anything but the greater of zero and the amount
C15_FeesAreNeverNegative ==
    currentBill # NoBill =>
        /\ ~Gt(Zero, currentBill.taxAmount)
        /\ ~Gt(Zero, currentBill.serviceFeeAmount)
        /\ \A amount \in C15_Amounts :
               /\ ~ENABLED (/\ handleUpdateTax(amount)
                             /\ currentBill'.taxAmount #
                                    (IF Gt(amount, Zero) THEN amount ELSE Zero))
               /\ ~ENABLED (/\ handleUpdateServiceFee(amount)
                             /\ currentBill'.serviceFeeAmount #
                                    (IF Gt(amount, Zero) THEN amount ELSE Zero))

\* ----------------------------------------------------------------- C16
C16_NamesDiffer ==
    currentBill # NoBill =>
        \A i \in 1..Len(currentBill.participants) :
            \A j \in 1..Len(currentBill.participants) :
                i # j => toLowerCase(currentBill.participants[i].name)
                            # toLowerCase(currentBill.participants[j].name)

\* the typed name, trimmed, is the name of a participant but for the case of its letters
C16_Duplicate ==
    /\ currentBill # NoBill /\ trim(participantNameInput) # <<>>
    /\ \E i \in 1..Len(currentBill.participants) :
           toLowerCase(currentBill.participants[i].name)
               = toLowerCase(trim(participantNameInput))

\* the typed name is empty or holds nothing but spaces
C16_Blank == \A i \in 1..Len(participantNameInput) : participantNameInput[i] = " "

\* C16: in every reachable state with an in-progress bill no two participants have names
\* that are equal ignoring case; a step of handleAddParticipant with a trimmed name equal
\* to a participant's name ignoring case leaves the bill unchanged and sets an error
\* message, and a step with an empty or whitespace-only name leaves the bill unchanged
C16_ParticipantNamesAreUnique ==
    /\ C16_NamesDiffer
    /\ C16_Duplicate =>
           ~ENABLED (handleAddParticipant /\ ~(currentBill' = currentBill /\ errorMessage' # ""))
    /\ C16_Blank => ~ENABLED (handleAddParticipant /\ currentBill' # currentBill)

\* " a" was refused next to the participant A
C16_Witness ==
    /\ EditRendered /\ Len(currentBill.participants) = 1
    /\ currentBill.participants[1].name = <<"A">>
    /\ participantNameInput = <<" ", "a">>
    /\ errorMessage = "Participant with this name already exists."

\* ----------------------------------------------------------------- C17
\* C17: whenever the upload step is on screen, a step of handleImageUpload with a file
\* whose type does not start with image/ sets an error message, dispatches nothing,
\* leaves isLoading false and leaves currentBill, appStep and the history as they were
C17_NonImageIsRejected ==
    UploadRendered =>
        \A file \in Files :
            ~startsWith(file.type, ImagePrefix) =>
                ~ENABLED (/\ handleImageUpload(file)
                          /\ ~(/\ errorMessage' # ""
                                /\ inflight' = inflight
                                /\ isLoading' = FALSE
                                /\ currentBill' = currentBill
                                /\ appStep' = appStep
                                /\ historicalBills' = historicalBills))

\* a text file was refused on the upload step while a bill with an item is in progress
C17_Witness ==
    /\ UploadRendered /\ currentBill # NoBill /\ Len(currentBill.extractedItems) >= 1
    /\ errorMessage = "Please upload a valid image file."
    /\ inflight = <<>>

\* ---------------------------------------------------- analyses in flight
\* the uploads whose analyzer call has been dispatched and has not settled
AnalysesInFlight == {t \in 1..Len(inflight) : inflight[t].phase = "analyzing"}

\* the bill reader.onloadend creates for the identifier billId
IsFreshBill(bill, billId) ==
    /\ bill # NoBill
    /\ bill.id = billId
    /\ bill.extractedItems = <<>> /\ bill.participants = <<>>
    /\ bill.itemAssignments = <<>>
    /\ bill.taxAmount = Zero /\ bill.serviceFeeAmount = Zero

\* ----------------------------------------------------------------- C18
\* C18: when the analyzer call of an upload rejects, the step that handles it ends with
\* appStep EDIT_BILL_DETAILS, an error message, isLoading false and, as in-progress bill,
\* the bill that upload created, with no items, participants or assignments and tax and
\* service fee zero
C18_FailedAnalysisLeavesEmptyBill ==
    \A t \in AnalysesInFlight :
        \A reply \in GeminiReplies :
            ~analyzeReceiptWithGemini(reply).ok =>
                ~ENABLED (/\ analysisSettled(t, reply)
                          /\ ~(/\ appStep' = "EDIT_BILL_DETAILS"
                                /\ errorMessage' # ""
                                /\ isLoading' = FALSE
                                /\ IsFreshBill(currentBill', inflight[t].billId)))

\* ----------------------------------------------------------------- C19
\* C19: while an analyzer call is in flight isLoading is true; no step that leaves the
\* call in flight changes the in-progress bill; and isLoading falls only in the step in
\* which the call settles (or when the page is opened again, which abandons the call)
C19_NoChangeWhileInFlight ==
    /\ [](AnalysesInFlight # {} => isLoading)
    /\ [][(AnalysesInFlight # {} /\ inflight' = inflight) => currentBill' = currentBill]_vars
    /\ [][(isLoading /\ ~isLoading')
              => (AppMount \/ (AnalysesInFlight # {} /\ AnalysesInFlight' = {}))]_vars

\* ----------------------------------------------------------------- C20
\* C20: in every reachable state at most one upload is pending, so at most one analyzer
\* call has been dispatched without having resolved or rejected
C20_OneAnalysisInFlight ==
    /\ Cardinality(AnalysesInFlight) <= 1
    /\ Len(inflight) <= 1

\* an analysis is in flight while the user has moved on to the history
C20_Witness ==
    /\ Cardinality(AnalysesInFlight) = 1 /\ appStep = "VIEW_HISTORY"
    /\ Len(historicalBills) = 2

\* ----------------------------------------------------------------- C21
\* C21: in every reachable state in which isLoading is true an upload is pending, its
\* file being read or its analysis in flight; isLoading is never left true with nothing
\* that will set it back
C21_LoadingHasPendingUpload == isLoading => Len(inflight) > 0

\* ----------------------------------------------------------------- C22
\* the fields of an in-progress bill
C22_BillFields ==
    {"id", "receiptImage", "extractedItems", "participants", "itemAssignments",
     "taxAmount", "serviceFeeAmount"}

\* a complete bill value
C22_IsBill(bill) ==
    /\ DOMAIN bill = C22_BillFields
    /\ bill.id \in 1..(nextId - 1)
    /\ \A i \in 1..Len(bill.extractedItems) :
           DOMAIN bill.extractedItems[i] = {"id", "name", "quantity", "price"}
    /\ \A i \in 1..Len(bill.participants) : DOMAIN bill.participants[i] = {"id", "name"}
    /\ IsFinite(bill.taxAmount) /\ IsFinite(bill.serviceFeeAmount)

\* the step left the bill missing, and appStep and the history as they were
C22_NoOp == currentBill' = NoBill /\ appStep' = appStep /\ historicalBills' = historicalBills

\* a step of some bill mutation handler that is not a no-op
C22_SomeHandlerActs ==
    \/ handleAddParticipant /\ ~C22_NoOp
    \/ \E p \in 1..nextId : handleRemoveParticipant(p) /\ ~C22_NoOp
    \/ handleAddItem /\ ~C22_NoOp
    \/ \E i \in 1..nextId : handleRemoveItem(i) /\ ~C22_NoOp
    \/ \E i \in 1..nextId : \E price \in PriceInputs :
           /\ handleUpdateItem([id |-> i, name |-> "New Item", quantity |-> Int2Num(1),
                                 price |-> price])
           /\ ~C22_NoOp
    \/ \E i \in 1..nextId : \E p \in 0..nextId : handleAssignItem(i, p) /\ ~C22_NoOp
    \/ \E amount \in TaxInputs : handleUpdateTax(amount) /\ ~C22_NoOp
    \/ \E amount \in FeeInputs : handleUpdateServiceFee(amount) /\ ~C22_NoOp
    \/ handleSetDefaultServiceFee /\ ~C22_NoOp

\* C22: in every reachable state without an in-progress bill, a step of any bill mutation
\* handler leaves currentBill null and appStep and the history unchanged; and every
\* in-progress bill of a reachable state is a complete bill value, the handlers replacing
\* it in one step each
C22_HandlersNeedABill ==
    /\ currentBill = NoBill => ~ENABLED C22_SomeHandlerActs
    /\ currentBill # NoBill => C22_IsBill(currentBill)

\* a bill every kind of handler has worked on: two items, one of them priced and assigned
\* to the one participant, a tax typed in
C22_Witness ==
    /\ EditRendered /\ Len(currentBill.participants) = 1
    /\ Len(currentBill.extractedItems) = 2
    /\ DOMAIN currentBill.itemAssignments # {}
    /\ currentBill.taxAmount = Int2Num(3)
    /\ participantNameInput = <<" ", "a">>

\* ----------------------------------------------------------------- C23
\* the step set the fee to the percentage of the sum of all prices and nothing else
C23_FeeSet ==
    /\ currentBill' = [currentBill EXCEPT !.serviceFeeAmount =
                          Mul(DEFAULT_SERVICE_FEE_PERCENTAGE, PriceTotal(currentBill))]
    /\ errorMessage' = errorMessage

\* the step set an error message and left the bill as it was
C23_Rejected == errorMessage' # "" /\ currentBill' = currentBill

\* C23 as stated: a step of handleSetDefaultServiceFee sets serviceFeeAmount to
\* DEFAULT_SERVICE_FEE_PERCENTAGE times the sum of all item prices, assigned or not, when
\* that sum is not zero, and is rejected with an error message and an unchanged bill when
\* it is zero
C23_Original ==
    [][DefaultFeeCalc =>
          IF ~StrictEq(PriceTotal(currentBill), Zero) THEN C23_FeeSet ELSE C23_Rejected]_vars

\* C23 amended: a step of handleSetDefaultServiceFee sets serviceFeeAmount to
\* DEFAULT_SERVICE_FEE_PERCENTAGE times the sum of all item prices, assigned or not, when
\* that sum is greater than zero, and is rejected with an error message and an unchanged
\* bill when it is zero or less
C23_DefaultFeeOfPositiveSum ==
    [][DefaultFeeCalc =>
          IF Gt(PriceTotal(currentBill), Zero) THEN C23_FeeSet ELSE C23_Rejected]_vars

\* the default fee was refused on a bill whose prices sum to less than zero, and the fee
\* typed before is still there
C23_Witness ==
    /\ currentBill # NoBill /\ Gt(Zero, PriceTotal(currentBill))
    /\ errorMessage = "Cannot calculate default service fee without items or non-zero prices."
    /\ currentBill.serviceFeeAmount = Int2Num(5000)

\* what the header's history button does to the state
C24_HistoryOpened ==
    /\ appStep' = "VIEW_HISTORY"
    /\ viewingBillDetails' = NoBill
    /\ currentBill' = currentBill
    /\ historicalBills' = historicalBills

\* the steps the user does not take: the file reader's and the analyzer's callbacks
C24_CallbackStep == ReaderLoadEnd \/ AnalysisSettled

\* C24: the history button can be used in every reachable state, with or without a
\* bill in progress and at any step; it sets appStep to VIEW_HISTORY and
\* viewingBillDetails to null and leaves currentBill and the history as they are;
\* and the app then stays in VIEW_HISTORY until the user acts again: no step of a
\* callback takes it out of VIEW_HISTORY
C24_HistoryAlwaysOpens ==
    /\ [](/\ ENABLED ClickViewHistory
          /\ ~ENABLED (ClickViewHistory /\ ~C24_HistoryOpened))
    /\ [][(appStep = "VIEW_HISTORY" /\ C24_CallbackStep) => appStep' = "VIEW_HISTORY"]_vars

\* ----------------------------------------------------------------- C25
\* ids are handed out in upload order and one bill is in progress at a time, so a
\* bill saved later has the larger id: most recently saved first
C25_NewestFirst(bills) ==
    \A i \in 1..Len(bills) : \A j \in 1..Len(bills) : i < j => bills[i].id > bills[j].id

\* kept is list without the bills of the id, in list's order
C25_Filtered(list, billId, kept) ==
    /\ \A i \in 1..Len(kept) : kept[i].id # billId
    /\ Len(kept) = Cardinality({i \in 1..Len(list) : list[i].id # billId})
    /\ \A i \in 1..Len(kept) : \A j \in 1..Len(kept) :
           i < j => \E k \in 1..Len(list) : \E l \in 1..Len(list) :
                        k < l /\ list[k] = kept[i] /\ list[l] = kept[j]

\* the save button with a working storage
C25_Added ==
    (SummaryRendered /\ viewingBillDetails = NoBill /\ handleSaveBill(TRUE, TRUE))
        => /\ historicalBills' = <<billToSave(currentBill)>> \o localStorage
           /\ localStorage' = jsonRoundTrip(historicalBills')

\* a delete button with a working storage
C25_Deleted ==
    HistoryRendered =>
        \A i \in 1..Len(historicalBills) :
            LET billId == historicalBills[i].id
            IN handleDeleteBill(billId, TRUE, TRUE)
                   => /\ C25_Filtered(localStorage, billId, historicalBills')
                      /\ localStorage' = jsonRoundTrip(historicalBills')

\* the clear button, confirmed, with a working storage
C25_Cleared ==
    (HistoryRendered /\ handleClearHistory(TRUE, TRUE))
        => historicalBills' = <<>> /\ localStorage' = <<>>

\* C25: with a working storage, saving returns and persists the new bill followed by
\* the persisted list, deleting returns and persists the persisted list without the
\* bills of the given id in the same order, clearing returns and persists the empty
\* list (what is persisted is the JSON text of the list returned); so the history and
\* the persisted list are most recently saved first
C25_StoreKeepsNewestFirst ==
    /\ [](C25_NewestFirst(historicalBills) /\ C25_NewestFirst(localStorage))
    /\ [][C25_Added /\ C25_Deleted /\ C25_Cleared]_vars

\* a bill was just saved on top of the earlier visit's bill
C25_Witness ==
    /\ currentBill = NoBill /\ appStep = "UPLOAD_RECEIPT"
    /\ Len(historicalBills) = 2
    /\ historicalBills[1].id > historicalBills[2].id
    /\ historicalBills[2] = EarlierBill
    /\ localStorage = historicalBills

\* ----------------------------------------------------------------- C26
C26_AppSteps == {"UPLOAD_RECEIPT", "EDIT_BILL_DETAILS", "VIEW_SUMMARY", "VIEW_HISTORY"}

\* after a handler ran with the given faults: a failed read gave the empty list, a
\* failed write left the persisted list alone, a write that worked persisted the JSON
\* text of the list computed, the handler set the list it computed
C26_Contained(readOk, writeOk, computed) ==
    /\ appStep' \in C26_AppSteps
    /\ ~writeOk => localStorage' = localStorage
    /\ writeOk => localStorage' = jsonRoundTrip(computed)
    /\ historicalBills' = computed

\* the delete and clear buttons return under every fault
C26_HandlersReturn ==
    /\ loadBillsFromStorage(FALSE) = <<>>
    /\ HistoryRendered =>
         \A i \in 1..Len(historicalBills) : \A readOk \in BOOLEAN : \A writeOk \in BOOLEAN :
           LET billId == historicalBills[i].id
               computed == IF readOk
                           THEN SelectSeq(localStorage, LAMBDA b : b.id # billId)
                           ELSE <<>>
           IN /\ ENABLED handleDeleteBill(billId, readOk, writeOk)
              /\ ~ENABLED (/\ handleDeleteBill(billId, readOk, writeOk)
                           /\ ~C26_Contained(readOk, writeOk, computed))
    /\ HistoryRendered /\ Len(historicalBills) > 0 =>
         \A writeOk \in BOOLEAN :
           /\ ENABLED handleClearHistory(TRUE, writeOk)
           /\ ~ENABLED (/\ handleClearHistory(TRUE, writeOk)
                        /\ ~C26_Contained(TRUE, writeOk, <<>>))

\* the save button and the mount effect under every fault
C26_SaveReturns ==
    /\ (SummaryRendered /\ viewingBillDetails = NoBill) =>
          \A readOk \in BOOLEAN : \A writeOk \in BOOLEAN :
              handleSaveBill(readOk, writeOk)
                  => C26_Contained(readOk, writeOk,
                                   <<billToSave(currentBill)>> \o (IF readOk THEN localStorage ELSE <<>>))
    /\ AppMount => /\ historicalBills' \in {localStorage, <<>>}
                   /\ localStorage' = localStorage
                   /\ appStep' = "UPLOAD_RECEIPT"

\* C26: a storage fault does not propagate: when the read fails the load returns the
\* empty list, when the write fails the persisted list is left as it was and add,
\* delete and clear still return the list they computed; the handlers complete under
\* every fault and leave appStep one of the four steps
C26_StorageFaultsAreContained ==
    /\ []C26_HandlersReturn
    /\ [][C26_SaveReturns]_vars

\* a bill was saved while both the read and the write failed: the history is the new
\* bill alone and the persisted list is still the earlier visit's
C26_Witness ==
    /\ currentBill = NoBill /\ appStep = "UPLOAD_RECEIPT"
    /\ Len(historicalBills) = 1 /\ historicalBills[1].id > 1
    /\ localStorage = <<EarlierBill>>

\* ----------------------------------------------------------------- C27
\* the items of the bill assigned to the participant, in the bill's order
C27_ItemsOf(bill, participantId) ==
    SelectSeq(bill.extractedItems, LAMBDA item : assignmentOf(bill, item.id) = participantId)

\* one share per participant in the participants' order, each with its items in the
\* bill's item order
C27_InOrder(bill, shares) ==
    /\ Len(shares) = Len(bill.participants)
    /\ \A i \in 1..Len(shares) :
         /\ shares[i].participantId = bill.participants[i].id
         /\ shares[i].items = C27_ItemsOf(bill, bill.participants[i].id)

\* the objects of a state whose bill in progress is `bill`: the participants, then the
\* items, then the bill, whose two arrays hold the references of its objects; the
\* history is not reachable from the bill (a stored bill is parsed from the storage
\* or copied when it is saved)
C27_Store(bill, step, history) ==
    IF bill = NoBill
    THEN [heap |-> <<>>, currentBill |-> NullId, appStep |-> step,
          historicalBills |-> history]
    ELSE LET n == Len(bill.participants)
             m == Len(bill.extractedItems)
         IN [heap |->
                bill.participants \o bill.extractedItems \o
                    <<[bill EXCEPT !.participants = [i \in 1..n |-> i],
                                   !.extractedItems = [i \in 1..m |-> n + i]]>>,
             currentBill |-> n + m + 1,
             appStep |-> step,
             historicalBills |-> history]

\* the bill in progress of a store, read through its references
C27_BillOf(store) ==
    IF store.currentBill = NullId THEN NoBill
    ELSE [store.heap[store.currentBill] EXCEPT
            !.participants = [i \in 1..Len(@) |-> store.heap[@[i]]],
            !.extractedItems = [i \in 1..Len(@) |-> store.heap[@[i]]]]

\* the shares an evaluation returned, read through its references
C27_SharesOf(evaluated) ==
    [i \in 1..Len(evaluated.participantShares) |->
        LET share == evaluated.store.heap[evaluated.participantShares[i]]
        IN [participantId |-> share.participantId,
            participantName |-> share.participantName,
            items |-> [j \in 1..Len(share.items) |-> evaluated.store.heap[share.items[j]]],
            subtotal |-> share.subtotal,
            taxShare |-> share.taxShare,
            serviceFeeShare |-> share.serviceFeeShare,
            totalOwed |-> share.totalOwed]]

\* the state's objects, one evaluation on them, and a second one on what the first left
C27_Before == C27_Store(currentBill, appStep, historicalBills)
C27_Once == calculateSharesOnObjects(C27_Before)
C27_Twice == calculateSharesOnObjects(C27_Once.store)

\* C27: calculateShares is pure and deterministic: an evaluation leaves the bill in
\* progress (items, participants, assignments, tax, fee), appStep and the history as
\* they were; a second evaluation on the same bill, among the objects the first one
\* left, returns the same shares; the shares are the ones the handlers take, with
\* exactly one share per participant in participant order and each share's items in
\* bill item order; and the shares frozen into a stored bill are the ones an evaluation
\* on that bill's objects returns, in the same order
C27_SharesFollowTheBill ==
    /\ C27_BillOf(C27_Once.store) = currentBill
    /\ C27_Once.store.appStep = appStep
    /\ C27_Once.store.historicalBills = historicalBills
    /\ C27_SharesOf(C27_Twice) = C27_SharesOf(C27_Once)
    /\ C27_BillOf(C27_Twice.store) = currentBill
    /\ C27_SharesOf(C27_Once) = calculateShares(currentBill)
    /\ currentBill # NoBill /\ Len(currentBill.participants) > 0
           => C27_InOrder(currentBill, C27_SharesOf(C27_Once))
    /\ \A i \in 1..Len(historicalBills) :
         /\ historicalBills[i].calculatedShares
                = C27_SharesOf(calculateSharesOnObjects(
                                    C27_Store(historicalBills[i], appStep, historicalBills)))
         /\ Len(historicalBills[i].participants) > 0
                => C27_InOrder(historicalBills[i], historicalBills[i].calculatedShares)

\* a bill in progress of three participants whose second participant has both items,
\* the second worth a tenth: the evaluation made three share objects after the six
\* objects of the bill, the second share holds the references of the two items in the
\* bill's order, and the second evaluation returned three other objects
C27_Witness ==
    /\ currentBill # NoBill
    /\ Len(currentBill.participants) = 3 /\ Len(currentBill.extractedItems) = 2
    /\ Gt(currentBill.taxAmount, Zero)
    /\ C27_Once.participantShares = <<7, 8, 9>>
    /\ C27_Once.store.heap[8].items = <<4, 5>>
    /\ Gt(C27_Once.store.heap[8].taxShare, Zero)
    /\ C27_Twice.participantShares = <<10, 11, 12>>

\* ----------------------------------------------------------------- C28
\* C28: whenever appStep is EDIT_BILL_DETAILS there is a bill in progress
C28_EditStepHasBill == appStep = "EDIT_BILL_DETAILS" => currentBill # NoBill

\* ----------------------------------------------------------------- C29
\* C29: once there is no bill in progress (startNewBill is what takes the bill away
\* while an analysis is pending), currentBill stays null and appStep does not become
\* EDIT_BILL_DETAILS until the file reader of an accepted upload creates the next bill;
\* in particular an analysis that settles meanwhile neither recreates a bill nor
\* changes appStep
C29_ResetOutlastsLateAnalysis ==
    [][(currentBill = NoBill /\ ~ReaderLoadEnd)
           => /\ currentBill' = NoBill
              /\ appStep' = "EDIT_BILL_DETAILS" => appStep = "EDIT_BILL_DETAILS"
              /\ AnalysisSettled => appStep' = appStep]_vars

\* ----------------------------------------------------------------- C30
\* C30: whenever a settling analysis replaces the items, tax and service fee of the
\* bill in progress, the id of the bill it is applied to, and of the bill it yields,
\* is the billId of the upload that dispatched it
C30_ResultGoesToItsBill ==
    [][\A t \in 1..Len(inflight) : \A reply \in GeminiReplies :
           (/\ inflight[t].phase = "analyzing"
            /\ analysisSettled(t, reply)
            /\ analyzeReceiptWithGemini(reply).ok)
               => /\ currentBill # NoBill => currentBill.id = inflight[t].billId
                  /\ currentBill' # NoBill
                  /\ currentBill'.id = inflight[t].billId]_vars

\* the result of an analysis dispatched before startNewBill was applied: the bill has
\* the items and no receipt image
C30_Witness ==
    /\ currentBill # NoBill /\ currentBill.receiptImage = NoImage
    /\ Len(currentBill.extractedItems) > 0
    /\ appStep = "EDIT_BILL_DETAILS" /\ ~isLoading

\* ----------------------------------------------------------------- C31
\* C31: whenever a stored bill is being viewed, appStep is VIEW_SUMMARY and that bill is
\* in the history list; so viewingBillDetails is null at the three other steps, and a
\* summary of the bill in progress never shows a stored bill instead
C31_ViewedBillIsOnSummary ==
    /\ viewingBillDetails # NoBill =>
         /\ appStep = "VIEW_SUMMARY"
         /\ \E i \in 1..Len(historicalBills) : historicalBills[i] = viewingBillDetails
    /\ appStep \in {"EDIT_BILL_DETAILS", "UPLOAD_RECEIPT", "VIEW_HISTORY"}
           => viewingBillDetails = NoBill
    /\ (appStep = "VIEW_SUMMARY" /\ viewingBillDetails = NoBill /\ currentBill # NoBill)
           => billToDisplay = currentBill /\ sharesToDisplay = calculateShares(currentBill)

\* a stored bill is on the summary while another bill is in progress
C31_Witness ==
    /\ viewingBillDetails # NoBill /\ appStep = "VIEW_SUMMARY" /\ ~isLoading
    /\ currentBill # NoBill /\ currentBill.id # viewingBillDetails.id
    /\ Len(historicalBills) = 1

\* ----------------------------------------------------------------- C32
\* the four gates of handleViewSummary held of the stored bill, and its shares are one
\* per participant
C32_PassedGates(bill) ==
    /\ Len(bill.participants) >= 1
    /\ Len(bill.extractedItems) >= 1
    /\ \A i \in 1..Len(bill.extractedItems) :
           assignmentOf(bill, bill.extractedItems[i].id) \in ParticipantIds(bill)
    /\ Len(bill.calculatedShares) = Len(bill.participants)
    /\ \A i \in 1..Len(bill.participants) :
           bill.calculatedShares[i].participantId = bill.participants[i].id

\* C32: every bill of the history, in memory or persisted, has at least one participant,
\* at least one item, every item assigned to one of its participants, and exactly one
\* share per participant
C32_StoredBillsPassedGates ==
    \A bill \in SeqToSet(historicalBills) \cup SeqToSet(localStorage) : C32_PassedGates(bill)

\* a bill of two participants was saved on top of the earlier one
C32_Witness ==
    /\ Len(historicalBills) = 2
    /\ Len(historicalBills[1].participants) = 2
    /\ Len(historicalBills[1].calculatedShares) = 2
    /\ historicalBills[1].id # 1

\* ----------------------------------------------------------------- C33
\* the summary's total: shares.reduce((sum, share) => sum + share.totalOwed, 0)
C33_GrandTotal(shares) == SumBy(shares, LAMBDA share : share.totalOwed)

\* what the bill charges: all item prices, the tax and the service fee
C33_Billed(b) == Add(Add(PriceTotal(b), b.taxAmount), b.serviceFeeAmount)

\* the gates of handleViewSummary
C33_PassesGates(b) ==
    Len(b.participants) >= 1 /\ Len(b.extractedItems) >= 1 /\ AllAssigned(b)

\* one of the two fee branches of calculateShares applies
C33_FeesDistributed(b) ==
    \/ Gt(PriceTotal(b), Zero)
    \/ /\ StrictEq(PriceTotal(b), Zero)
       /\ (Gt(b.taxAmount, Zero) \/ Gt(b.serviceFeeAmount, Zero))

\* C33 as stated: for every bill that passes the gates, with any stored prices, the
\* grand total of its shares is the sum of all item prices plus tax plus service fee
C33_Original ==
    /\ (currentBill # NoBill /\ C33_PassesGates(currentBill))
           => C33_GrandTotal(calculateShares(currentBill)) = C33_Billed(currentBill)
    /\ \A b \in StoredBills :
           C33_PassesGates(b) => C33_GrandTotal(b.calculatedShares) = C33_Billed(b)

\* the sum of all item prices, and what the bill charges, not rounded
C33_Prices(b) == ExactSumBy(b.extractedItems, LAMBDA item : item.price)
C33_Charged(b) == ExactAdd(ExactAdd(C33_Prices(b), b.taxAmount), b.serviceFeeAmount)
C33_Fees(b) == ExactAdd(AbsNum(b.taxAmount), AbsNum(b.serviceFeeAmount))

\* the number of participants and of items together
C33_Count(b) == Int2Num(Len(b.participants) + Len(b.extractedItems))

\* The grand total is what is charged, up to the rounding of the double arithmetic. With
\* K participants and items together, P the sum of the absolute values of the prices and
\* T the prices' sum, the grand total is within K * 2^-50 * (P + (|tax| + |fee|) * P / T)
\* of prices + tax + fee in the proportional branch, within
\* K * 2^-50 * (P + |tax| + |fee|) of it in the equal split, and within K * 2^-50 * P of
\* the prices when no fee is distributed.
C33_TotalOf(b, shares) ==
    LET total == C33_GrandTotal(shares)
        T == PriceTotal(b)
        P == AbsPriceTotal(b)
    IN IF Gt(T, Zero)
       THEN Le(ExactMul(AbsNum(ExactSub(total, C33_Charged(b))), T),
               TimesPow2(ExactMul(ExactMul(C33_Count(b), P), ExactAdd(T, C33_Fees(b))), -50))
       ELSE IF C33_FeesDistributed(b)
       THEN Le(AbsNum(ExactSub(total, C33_Charged(b))),
               TimesPow2(ExactMul(C33_Count(b), ExactAdd(P, C33_Fees(b))), -50))
       ELSE Le(AbsNum(ExactSub(total, C33_Prices(b))),
               TimesPow2(ExactMul(C33_Count(b), P), -50))

C33_InRange(b, shares) == SharesInRange(b, shares) /\ IsFinite(C33_GrandTotal(shares))

\* C33 amended: for every bill that passes the gates, the grand total of its shares is
\* the sum of all item prices plus tax plus service fee when the prices sum to more than
\* zero, or to zero with a tax or a service fee greater than zero; otherwise no fee is
\* distributed and the grand total is the sum of all item prices; each time up to the
\* rounding of the double arithmetic, when nothing overflowed or underflowed
C33_GrandTotalWhenFeesDistributed ==
    /\ (currentBill # NoBill /\ C33_PassesGates(currentBill)
           /\ C33_InRange(currentBill, calculateShares(currentBill)))
           => C33_TotalOf(currentBill, calculateShares(currentBill))
    /\ \A b \in StoredBills :
           (C33_PassesGates(b) /\ C33_InRange(b, b.calculatedShares))
               => C33_TotalOf(b, b.calculatedShares)

\* a saved bill whose prices sum to less than zero: its tax is charged to nobody, and
\* its grand total is the rounded sum of the prices
C33_Witness ==
    /\ Len(historicalBills) = 1
    /\ C33_PassesGates(historicalBills[1])
    /\ C33_InRange(historicalBills[1], historicalBills[1].calculatedShares)
    /\ Gt(Zero, PriceTotal(historicalBills[1]))
    /\ Gt(historicalBills[1].taxAmount, Zero)
    /\ C33_GrandTotal(historicalBills[1].calculatedShares) = PriceTotal(historicalBills[1])
    /\ ~NumEq(C33_GrandTotal(historicalBills[1].calculatedShares),
              C33_Prices(historicalBills[1]))

\* ----------------------------------------------------------------- C34
\* C34: a save removes no bill from the persisted list, whether or not the read of the
\* persisted list inside addBillToStorage succeeds
C34_SaveKeepsPersistedBills ==
    [][ClickSaveBill => \A b \in SeqToSet(localStorage) : b \in SeqToSet(localStorage')]_vars

\* ----------------------------------------------------------------- C35
\* a save, a delete or a confirmed clear from its button
C35_StoreStep ==
    \/ ClickSaveBill
    \/ ClickDeleteBill
    \/ HistoryRendered /\ Len(historicalBills) > 0
         /\ \E writeOk \in BOOLEAN : handleClearHistory(TRUE, writeOk)

\* C35: after the initial load the history list in memory is the list the load returned,
\* and after every save, delete and clear it is the persisted list a load would return,
\* whether or not the write succeeded
C35_HistoryIsPersistedList ==
    [][/\ AppMount => historicalBills' \in {localStorage', <<>>}
       /\ C35_StoreStep => historicalBills' = localStorage']_vars


====
